---- MODULE Spec2Model ----
(***************************************************************************)
(* State-machine model of the content-lab-server capture core: the batch   *)
(* tracker (BatchJob), the capture job and its pipeline (CaptureJob,       *)
(* WebCaptureService), the job queue (JobQueueService) and the capture     *)
(* store (CaptureStorageService).                                          *)
(***************************************************************************)
EXTENDS Integers, Sequences, FiniteSets, TLC

VARIABLES
  batch,      \* the BatchJob object
  bLast,      \* history: the last BatchJob method called ("new", "add", "update")
  bOrderly,   \* history: TRUE while no member was updated before all were added, nor twice
  capJobs,    \* the CaptureJob objects, indexed by job id (ids are allocated 1, 2, ...)
  pc,         \* per capture job: the await its captureWebpageAsync call is suspended at
  thrown,     \* per capture job: the error in flight while the finally block closes the page
  queueJobs,  \* the ids held in the job queue's map
  multi,      \* the captureMulti / captureCurated handler: its loop position
  faults,     \* number of exceptions raised so far by the environment
  maxConcurrent, \* JobQueueService.maxConcurrent
  running,    \* JobQueueService.running
  convJobs,   \* JobQueueService.jobs: the ConversionJob objects by id (ids are allocated 1, 2, ...)
  qCall,      \* history: the last JobQueueService call, with running and the job's status before it
  index,      \* captures/index.json: its captures array
  dirs,       \* captures/<id>/: per capture id <<>> (no directory) or <<its content>>
  tasks,      \* the CaptureStorageService calls made so far: arguments, locals, position
  clock,      \* Date.now(), in milliseconds
  lastRequestTime, \* RateLimiter.lastRequestTime: per domain, 0 when the map has no entry
  callers,    \* the waitForDomain calls made so far: domain, position, timer, time of return
  downloadedResources, \* ResourceDownloader.downloadedResources: pairs <<url, local path>>
  tempFiles,  \* the files under tempDir: pairs <<local path, url the content came from>>
  downloads,  \* the downloadResource calls made so far: arguments, position, GETs, result
  session,    \* the running capture's resources: mode, position, lists, page HTML
  resJob,     \* the capture's CaptureJob: status and stats
  captured,   \* the capture directory saveCapture wrote: index.html and copied files
  crawl,      \* the MultiPageCrawlerService.crawl call: options, queue, visited, pages, batch
  testCrawl,  \* the TestCrawl object and its executeCrawl call: queue, visited, position
  request,    \* the capture-curated request waiting to be handled, and its crawl's status
  captureOptions \* the CaptureOptions object built from the request's options: <<>> or <<it>>

batchVars == <<batch, bLast, bOrderly>>

capVars == <<capJobs, pc, thrown, queueJobs, multi, faults>>

queueVars == <<maxConcurrent, running, convJobs, qCall>>

storeVars == <<index, dirs, tasks>>

limiterVars == <<clock, lastRequestTime, callers>>

\* the state of the resource downloader and of what it uses
downloaderVars == <<downloadedResources, tempFiles, downloads>>

resourceVars == <<session, resJob, captured>>

crawlVars == <<crawl, testCrawl>>

requestVars == <<request, captureOptions>>

downloadVars == <<limiterVars, downloaderVars, resourceVars, crawlVars, requestVars>>

vars == <<batch, bLast, bOrderly, capJobs, pc, thrown, queueJobs, multi, faults,
          maxConcurrent, running, convJobs, qCall, index, dirs, tasks,
          clock, lastRequestTime, callers, downloadedResources, tempFiles, downloads,
          session, resJob, captured, crawl, testCrawl, request, captureOptions>>

\* what the capture pipeline, the batch tracker and the job queue leave alone
outsideCapture == <<queueVars, storeVars, downloadVars>>
outsideBatch == <<capVars, queueVars, storeVars, downloadVars>>
outsideQueue == <<batchVars, capVars, storeVars, downloadVars>>
outsideLimiter ==
  <<batchVars, capVars, queueVars, storeVars, downloaderVars, resourceVars, crawlVars,
    requestVars>>
outsideDownloader ==
  <<batchVars, capVars, queueVars, storeVars, limiterVars, resourceVars, crawlVars,
    requestVars>>
outsideResources ==
  <<batchVars, capVars, queueVars, storeVars, limiterVars, crawlVars, requestVars>>
outsideCrawl ==
  <<batchVars, capVars, queueVars, storeVars, limiterVars, downloaderVars, resourceVars,
    requestVars>>
outsideStore == <<batchVars, capJobs, pc, thrown, queueJobs, multi, queueVars, downloadVars>>

\* ---------------------------------------------------------------------
\* Bounds
\* ---------------------------------------------------------------------
MaxUrls == 3          \* longest urls array handed to one batch
MaxJobs == 3          \* capture jobs created in one run
MaxSoloJobs == 2      \* capture jobs followed through every step of the pipeline
MaxFaults == 1        \* exceptions the environment raises in one run
MaxCrawled == 2       \* pages a multi-page crawl finds before its queue is empty
MaxConvJobs == 3      \* conversion jobs created in one run
MaxRunning == 4       \* cap on the running counter
MaxOps == 3           \* capture store calls made in one run
MaxCallers == 3       \* waitForDomain calls made in one run
MaxTicks == 3         \* half delays the clock advances in one run
MaxDownloads == 2     \* downloadResource calls made in one run
MaxGets == 3          \* cap on the GETs one downloadResource call issues
MaxResources == 3     \* resources a captured page lists
MaxCrawlDepth == 2    \* largest options.multiPage.depth of a crawl
MaxCrawlPages == 2    \* largest options.multiPage.maxPages of a crawl
MaxLinks == 2         \* links a crawled page shows

Null == "<null>"

\* URLs are opaque: the i-th URL of a request is the number i.
UrlArray(n) == [i \in 1..n |-> i]

\* ---------------------------------------------------------------------
\* BatchJob (batch-job.model.js)
\* ---------------------------------------------------------------------
\* Math.round(x * 100 / y); NaN (0/0) is rendered as -1.
RoundPercent(x, y) == IF y = 0 THEN -1 ELSE (200 * x + y) \div (2 * y)

\* new BatchJob(urls, options)
BatchJob(urls) ==
  [ urls        |-> urls,
    status      |-> "pending",
    progress    |-> 0,
    startedAt   |-> Null,
    completedAt |-> Null,
    jobs        |-> <<>>,
    summary     |-> [total |-> Len(urls), completed |-> 0, failed |-> 0, pending |-> Len(urls)],
    error       |-> Null ]

\* BatchJob.addJob(jobId, url)
AddJob(b, jobId, url) ==
  [b EXCEPT !.jobs = Append(@, [jobId |-> jobId, url |-> url, status |-> "pending", updatedAt |-> Null])]

\* this.jobs.filter(j => j.status in S).length
CountJobs(jobs, S) == Cardinality({i \in 1..Len(jobs) : jobs[i].status \in S})

\* updateBatchStatus with the partial test missing its noPending conjunct
UpdateBatchStatus_NoPendingDropped(b) ==
  LET allCompleted  == b.summary.completed = b.summary.total
      allFailed     == b.summary.failed = b.summary.total
      someCompleted == b.summary.completed > 0
      someFailed    == b.summary.failed > 0
  IN  IF allCompleted THEN [b EXCEPT !.status = "completed", !.completedAt = "date"]
      ELSE IF allFailed THEN [b EXCEPT !.status = "failed", !.completedAt = "date"]
      ELSE IF someCompleted /\ someFailed
        THEN [b EXCEPT !.status = "partial", !.completedAt = "date"]
      ELSE IF someCompleted \/ someFailed
        THEN [b EXCEPT !.status = "in_progress",
                       !.startedAt = IF @ = Null THEN "date" ELSE @]
      ELSE b

\* updateBatchStatus with allFailed computed as "some member failed"
UpdateBatchStatus_AnyFailedFails(b) ==
  LET allCompleted  == b.summary.completed = b.summary.total
      someCompleted == b.summary.completed > 0
      someFailed    == b.summary.failed > 0
      noPending     == b.summary.pending = 0
  IN  IF allCompleted THEN [b EXCEPT !.status = "completed", !.completedAt = "date"]
      ELSE IF someFailed /\ ~someCompleted THEN [b EXCEPT !.status = "failed", !.completedAt = "date"]
      ELSE IF noPending /\ someCompleted /\ someFailed
        THEN [b EXCEPT !.status = "partial", !.completedAt = "date"]
      ELSE IF someCompleted \/ someFailed
        THEN [b EXCEPT !.status = "in_progress",
                       !.startedAt = IF @ = Null THEN "date" ELSE @]
      ELSE b

\* BatchJob.updateBatchStatus()
UpdateBatchStatus(b) ==
  LET allCompleted  == b.summary.completed = b.summary.total
      allFailed     == b.summary.failed = b.summary.total
      someCompleted == b.summary.completed > 0
      someFailed    == b.summary.failed > 0
      noPending     == b.summary.pending = 0
  IN  IF allCompleted THEN [b EXCEPT !.status = "completed", !.completedAt = "date"]
      ELSE IF allFailed THEN [b EXCEPT !.status = "failed", !.completedAt = "date"]
      ELSE IF noPending /\ someCompleted /\ someFailed
        THEN [b EXCEPT !.status = "partial", !.completedAt = "date"]
      ELSE IF someCompleted \/ someFailed
        THEN [b EXCEPT !.status = "in_progress",
                       !.startedAt = IF @ = Null THEN "date" ELSE @]
      ELSE b

\* this.jobs.find(j => j.jobId === jobId): index of the first match, 0 when none
FindJob(jobs, jobId) ==
  IF \E i \in 1..Len(jobs) : jobs[i].jobId = jobId
    THEN CHOOSE i \in 1..Len(jobs) :
           /\ jobs[i].jobId = jobId
           /\ \A k \in 1..(i - 1) : jobs[k].jobId # jobId
    ELSE 0

\* BatchJob.updateJobStatus(jobId, status)
UpdateJobStatus(b, jobId, status) ==
  LET i == FindJob(b.jobs, jobId) IN
  IF i = 0 THEN b
  ELSE
    LET js == [b.jobs EXCEPT ![i].status = status, ![i].updatedAt = "date"]
        completed == CountJobs(js, {"completed"})
        b1 == [b EXCEPT !.jobs = js,
                        !.summary.completed = completed,
                        !.summary.failed = CountJobs(js, {"failed"}),
                        !.summary.pending = CountJobs(js, {"pending", "processing"}),
                        !.progress = RoundPercent(completed, b.summary.total)]
    IN UpdateBatchStatus(b1)

\* The statuses the controller reports to a batch (captureMulti / captureCurated).
ReportedStatuses == {"completed", "failed"}

\* ---------------------------------------------------------------------
\* CaptureJob (capture-job.model.js)
\* ---------------------------------------------------------------------
Min(a, b) == IF a < b THEN a ELSE b
Max(a, b) == IF a > b THEN a ELSE b

\* new CaptureJob(id, url, options)
CaptureJob(id, url, options) ==
  [ id          |-> id,
    url         |-> url,
    options     |-> options,
    status      |-> "pending",
    progress    |-> 0,
    currentStep |-> <<"Initializing">>,
    completedAt |-> Null,
    error       |-> Null,
    outputPath  |-> Null,
    steps       |-> <<>>,
    stats       |-> [pagesProcessed |-> 0, totalPages |-> 0] ]

\* this.steps.find(s => s.name === step): index of the first match, 0 when none
FindStep(steps, name) ==
  IF \E i \in 1..Len(steps) : steps[i].name = name
    THEN CHOOSE i \in 1..Len(steps) :
           /\ steps[i].name = name
           /\ \A k \in 1..(i - 1) : steps[k].name # name
    ELSE 0

\* this.steps.find(s => s.status === 'in_progress')
FindInProgress(steps) ==
  IF \E i \in 1..Len(steps) : steps[i].status = "in_progress"
    THEN CHOOSE i \in 1..Len(steps) :
           /\ steps[i].status = "in_progress"
           /\ \A k \in 1..(i - 1) : steps[k].status # "in_progress"
    ELSE 0

\* CaptureJob.updateProgress(step, progress)
UpdateProgress(job, step, progress) ==
  LET i == FindStep(job.steps, step) IN
  [job EXCEPT !.currentStep = step,
              !.progress = Min(100, Max(0, progress)),
              !.steps = IF i # 0 THEN [@ EXCEPT ![i].status = "in_progress"]
                        ELSE Append(@, [name |-> step, status |-> "in_progress",
                                        completedAt |-> Null])]

\* CaptureJob.completeStep(step)
CompleteStep(job, step) ==
  LET i == FindStep(job.steps, step) IN
  IF i # 0 THEN [job EXCEPT !.steps[i].status = "completed", !.steps[i].completedAt = "date"]
  ELSE job

\* complete() that forgets to store the output path
Complete_NoOutputPath(job, outputPath) ==
  [job EXCEPT !.status = "completed",
              !.progress = 100,
              !.currentStep = <<"Completed">>,
              !.completedAt = "date",
              !.steps = [i \in 1..Len(@) |->
                           IF @[i].status = "in_progress"
                             THEN [@[i] EXCEPT !.status = "completed", !.completedAt = "date"]
                             ELSE @[i]]]

\* CaptureJob.complete(outputPath)
Complete(job, outputPath) ==
  [job EXCEPT !.status = "completed",
              !.progress = 100,
              !.currentStep = <<"Completed">>,
              !.completedAt = "date",
              !.outputPath = outputPath,
              !.steps = [i \in 1..Len(@) |->
                           IF @[i].status = "in_progress"
                             THEN [@[i] EXCEPT !.status = "completed", !.completedAt = "date"]
                             ELSE @[i]]]

\* error.message || String(error), for an Error object with that message
ErrorText(error) == IF error.message # "" THEN error.message ELSE "Error"

\* CaptureJob.fail(error)
Fail(job, error) ==
  LET i == FindInProgress(job.steps) IN
  [job EXCEPT !.status = "failed",
              !.currentStep = <<"Failed">>,
              !.completedAt = "date",
              !.error = ErrorText(error),
              !.steps = IF i # 0 THEN [@ EXCEPT ![i].status = "failed", ![i].completedAt = "date"]
                        ELSE @]

\* The errors the browser, the downloader and the store raise.
Errors == {[message |-> "Navigation timeout"]}

\* Normalized capture options, as far as the pipeline reads them.
SinglePageOptions == { [multiPage |-> [enabled |-> FALSE, maxPages |-> 10]] }

MultiPageOptions ==
  { [multiPage |-> [enabled |-> TRUE, maxPages |-> 1]],
    [multiPage |-> [enabled |-> TRUE, maxPages |-> 25]] }

OptionInputs == SinglePageOptions \cup MultiPageOptions

\* ---------------------------------------------------------------------
\* ConversionJob and JobQueueService (conversion-job.model.js, job-queue.service.js)
\* ---------------------------------------------------------------------
CrawlerMaxConcurrent == 3  \* MultiPageCrawlerService.maxConcurrent
DefaultMaxConcurrent == 3

\* ResourceDownloader: new RateLimiter({ minDelay: 1000 })
MinDelay == 1000

\* parseInt(process.env.MAX_CONCURRENT_JOBS || '3'): the default, and a lowered setting
MaxConcurrentInputs == {DefaultMaxConcurrent - 1, DefaultMaxConcurrent}

StepNames ==
  << "Parsing EPUB", "Extracting content", "Processing styles",
     "Generating pages", "Creating bookmarks", "Optimizing PDF" >>

\* new ConversionJob(id, fileId, options)
ConversionJob(id) ==
  [ id          |-> id,
    status      |-> "pending",
    progress    |-> 0,
    currentStep |-> "Initializing",
    completedAt |-> Null,
    error       |-> Null,
    outputPath  |-> Null,
    steps       |-> [i \in 1..Len(StepNames) |-> "pending"] ]

\* ConversionJob.updateStatus(status, progress)
UpdateStatus(job, status, progress) ==
  [job EXCEPT !.status = status, !.progress = Min(100, Max(0, progress))]

\* ConversionJob.complete(outputPath)
ConversionComplete(job, outputPath) ==
  [job EXCEPT !.status = "completed", !.progress = 100, !.completedAt = "date",
              !.outputPath = outputPath,
              !.steps = [i \in 1..Len(StepNames) |-> "completed"]]

\* ConversionJob.fail(error)
ConversionFail(job, error) ==
  [job EXCEPT !.status = "failed", !.error = error, !.completedAt = "date",
              !.steps = [i \in 1..Len(StepNames) |->
                           IF StepNames[i] = job.currentStep THEN "failed" ELSE @[i]]]

\* a job id that was deleted, or never created
Deleted == [id |-> 0, status |-> "deleted", progress |-> 0, currentStep |-> Null,
            completedAt |-> Null, error |-> Null, outputPath |-> Null,
            steps |-> [i \in 1..Len(StepNames) |-> "pending"]]

HasJob(jobId) == jobId \in 1..Len(convJobs) /\ convJobs[jobId] # Deleted

StatusOf(jobId) == IF HasJob(jobId) THEN convJobs[jobId].status ELSE "deleted"

Called(op, jobId) ==
  qCall' = [op |-> op, id |-> jobId, running |-> running, status |-> StatusOf(jobId)]

\* JobQueueService.canStartJob()
CanStartJob == running < maxConcurrent

DomainInputs == {1, 2}

\* new RateLimiter({minDelay: 1000}), well after the epoch
IdleLimiter ==
  /\ clock = MinDelay
  /\ lastRequestTime = [domain \in DomainInputs |-> 0]
  /\ callers = <<>>

\* new ResourceDownloader(tempDir, baseUrl)
IdleDownloader ==
  /\ downloadedResources = {}
  /\ tempFiles = {}
  /\ downloads = <<>>

\* no capture has extracted its resources yet
IdleResources ==
  /\ session = [pc |-> "idle", mode |-> "single", page |-> <<>>, resources |-> <<>>,
                cursor |-> 0, downloaded |-> <<>>, html |-> {}, events |-> <<>>]
  \* attempted counts the iterations of each of downloadResources' loops
  /\ resJob = [status |-> "pending", totalResources |-> 0, resourcesDownloaded |-> 0,
               attempted |-> [kind \in {"images", "stylesheets", "scripts", "fonts"} |-> 0],
               succeeded |-> [kind \in {"images", "stylesheets", "scripts", "fonts"} |-> 0],
               failed |-> [kind \in {"images", "stylesheets", "scripts", "fonts"} |-> <<>>]]
  /\ captured = <<>>

\* no crawl was started
IdleCrawl ==
  /\ crawl = [pc |-> "idle",
              options |-> [depth |-> 0, maxPages |-> 0, sameDomainOnly |-> TRUE],
              pageQueue |-> <<>>, visited |-> {}, pages |-> <<>>, active |-> {},
              batch |-> <<>>, stats |-> [pagesProcessed |-> 0, totalPages |-> 0],
              skipped |-> 0, offDomainSeen |-> FALSE, failed |-> <<>>]
  /\ testCrawl = [pc |-> "idle", status |-> "none", error |-> <<>>, progress |-> 0,
                  options |-> [depth |-> 0, maxPages |-> 0, sameDomainOnly |-> TRUE],
                  pages |-> <<>>, queue |-> <<>>, visited |-> {}, current |-> <<>>,
                  cancelled |-> FALSE, failed |-> <<>>]

\* no capture-curated request is waiting
NoRequest ==
  [crawlStatus |-> "none", selectedUrls |-> <<>>, additionalUrls |-> <<>>,
   excludedUrls |-> <<>>]

IdleRequest == request = NoRequest /\ captureOptions = <<>>

IdleDownload == IdleLimiter /\ IdleDownloader /\ IdleResources /\ IdleCrawl /\ IdleRequest

\* the capture store after initialize(): an index without captures, no capture directory
IdleStore ==
  /\ index = <<>>
  /\ dirs = <<>>
  /\ tasks = <<>>

IdleQueue ==
  /\ running = 0
  /\ convJobs = <<>>
  /\ qCall = [op |-> "new", id |-> 0, running |-> 0, status |-> "deleted"]

InitQueue ==
  /\ maxConcurrent \in MaxConcurrentInputs
  /\ IdleQueue

\* JobQueueService.createJob(fileId, options)
CreateJob ==
  /\ Len(convJobs) < MaxConvJobs
  /\ convJobs' = Append(convJobs, ConversionJob(Len(convJobs) + 1))
  /\ Called("createJob", Len(convJobs) + 1)
  /\ UNCHANGED <<maxConcurrent, running, outsideQueue>>

\* JobQueueService.startJob(jobId)
StartJob(jobId) ==
  /\ Called("startJob", jobId)
  /\ IF ~HasJob(jobId) THEN UNCHANGED <<running, convJobs>>
     ELSE /\ running < MaxRunning
          /\ running' = running + 1
          /\ convJobs' = [convJobs EXCEPT ![jobId] = UpdateStatus(@, "parsing", 0)]
  /\ UNCHANGED <<maxConcurrent, outsideQueue>>

\* JobQueueService.completeJob(jobId, outputPath)
CompleteJob(jobId) ==
  /\ Called("completeJob", jobId)
  /\ IF ~HasJob(jobId) THEN UNCHANGED <<running, convJobs>>
     ELSE /\ convJobs' = [convJobs EXCEPT ![jobId] = ConversionComplete(@, "outputPath")]
          /\ running' = Max(0, running - 1)
  /\ UNCHANGED <<maxConcurrent, outsideQueue>>

\* JobQueueService.failJob(jobId, error)
FailJob(jobId) ==
  /\ Called("failJob", jobId)
  /\ IF ~HasJob(jobId) THEN UNCHANGED <<running, convJobs>>
     ELSE /\ convJobs' = [convJobs EXCEPT ![jobId] = ConversionFail(@, "error")]
          /\ running' = Max(0, running - 1)
  /\ UNCHANGED <<maxConcurrent, outsideQueue>>

\* JobQueueService.deleteJob(jobId)
DeleteJob(jobId) ==
  /\ Called("deleteJob", jobId)
  /\ IF ~HasJob(jobId) THEN UNCHANGED convJobs
     ELSE convJobs' = [convJobs EXCEPT ![jobId] = Deleted]
  /\ UNCHANGED <<maxConcurrent, running, outsideQueue>>

NextQueue ==
  \/ CreateJob
  \/ \E jobId \in 1..MaxConvJobs : StartJob(jobId)
  \/ \E jobId \in 1..MaxConvJobs : CompleteJob(jobId)
  \/ \E jobId \in 1..MaxConvJobs : FailJob(jobId)
  \/ \E jobId \in 1..MaxConvJobs : DeleteJob(jobId)

\* ---------------------------------------------------------------------
\* Job queue map and the capture pipeline (WebCaptureService)
\* ---------------------------------------------------------------------
IdleCapture ==
  /\ capJobs = <<>>
  /\ pc = <<>>
  /\ thrown = <<>>
  /\ queueJobs = {}
  /\ multi = [phase |-> "none", urls |-> <<>>, next |-> 0, response |-> 0]
  /\ faults = 0

\* jobQueueService.addJob(job): the job is stored under its id
QueueAddJob(q, job) == q \cup {job.id}

\* uuidv4(): a fresh job id
NewJobId == Len(capJobs) + 1

SetJob(j, job) == capJobs' = [capJobs EXCEPT ![j] = job]
Goto(j, label) == pc' = [pc EXCEPT ![j] = label]

NoError == [message |-> Null]

\* an awaited call rejects with error e
Raise(e) == /\ faults < MaxFaults
            /\ e \in Errors
            /\ faults' = faults + 1

\* captureWebpageAsync's catch block: job.fail(error); the promise then resolves
Caught(j, job, e) ==
  /\ SetJob(j, Fail(job, e))
  /\ Goto(j, "fulfilled")
  /\ thrown' = [thrown EXCEPT ![j] = NoError]

\* captureSinglePage's finally block with an open page: await page.close()
Finally(j, job, e) ==
  /\ SetJob(j, job)
  /\ Goto(j, "close")
  /\ thrown' = [thrown EXCEPT ![j] = e]

\* captureWebpageAsync that never marks the job processing
BeginCapture_StaysPending(job) ==
  LET j1 == UpdateProgress(job, <<"Starting capture...">>, 0)
  IN IF job.options.multiPage.enabled
       THEN UpdateProgress(j1, <<"Crawling pages...">>, 5)
       ELSE UpdateProgress(j1, <<"Launching browser page...">>, 5)

\* captureWebpageAsync(job) up to its first await
BeginCapture(job) ==
  LET j1 == [UpdateProgress(job, <<"Starting capture...">>, 0) EXCEPT !.status = "processing"]
  IN IF job.options.multiPage.enabled
       THEN UpdateProgress(j1, <<"Crawling pages...">>, 5)
       ELSE UpdateProgress(j1, <<"Launching browser page...">>, 5)

BeginLabel(job) == IF job.options.multiPage.enabled THEN "crawl" ELSE "newPage"

\* --- controller: startCapture ---------------------------------------
\* startCapture up to `await getWebCaptureService()`
StartCapture(limit, optionSet) ==
  \E options \in optionSet :
    /\ Len(capJobs) < limit
    /\ LET job == CaptureJob(NewJobId, NewJobId, options) IN
         /\ capJobs' = Append(capJobs, job)
         /\ queueJobs' = QueueAddJob(queueJobs, job)
    /\ pc' = Append(pc, "created")
    /\ thrown' = Append(thrown, NoError)
    /\ UNCHANGED <<batchVars, multi, faults, outsideCapture>>

\* startCapture after the await: service.captureWebpageAsync(job)
StartCaptureResume(j) ==
  /\ pc[j] = "created"
  /\ SetJob(j, BeginCapture(capJobs[j]))
  /\ Goto(j, BeginLabel(capJobs[j]))
  /\ UNCHANGED <<batchVars, thrown, queueJobs, multi, faults, outsideCapture>>

\* --- controller: captureMulti / captureCurated ----------------------
\* the body of `for (const url of urls)` up to `await getWebCaptureService()`
LoopCreate(b, k, options) ==
  LET job == CaptureJob(NewJobId, b.urls[k], options) IN
    /\ batch' = AddJob(b, job.id, job.url)
    /\ capJobs' = Append(capJobs, job)
    /\ queueJobs' = QueueAddJob(queueJobs, job)
    /\ pc' = Append(pc, "inLoop")
    /\ thrown' = Append(thrown, NoError)

\* new BatchJob(urls); addBatch; first loop iteration, or the response when urls is empty
OpenBatch(urls, options) ==
  /\ Len(capJobs) + Len(urls) <= MaxJobs
  /\ bOrderly' = TRUE
  /\ IF Len(urls) = 0
       THEN /\ batch' = BatchJob(urls)
            /\ bLast' = "new"
            /\ multi' = [phase |-> "responded", urls |-> urls, next |-> 0, response |-> 202]
            /\ UNCHANGED <<capJobs, pc, thrown, queueJobs>>
       ELSE /\ LoopCreate(BatchJob(urls), 1, options)
            /\ bLast' = "add"
            /\ multi' = [phase |-> "loop", urls |-> urls, next |-> 1, response |-> 0]
  /\ UNCHANGED <<faults, outsideCapture>>

\* captureMulti
CaptureMulti(optionSet) ==
  \E n \in 0..MaxUrls, options \in optionSet :
    /\ multi.phase = "none"
    /\ IF n = 0
         THEN /\ multi' = [multi EXCEPT !.response = 400]
              /\ multi.response # 400
              /\ UNCHANGED <<batchVars, capJobs, pc, thrown, queueJobs, faults, outsideCapture>>
         ELSE OpenBatch(UrlArray(n), options)

\* allUrls.filter(url => !excludedUrls.includes(url))
RECURSIVE FilterOut(_, _)
FilterOut(urls, excluded) ==
  IF urls = <<>> THEN <<>>
  ELSE LET rest == FilterOut(Tail(urls), excluded) IN
       IF \E i \in 1..Len(excluded) : excluded[i] = Head(urls) THEN rest
       ELSE <<Head(urls)>> \o rest

\* [...new Set(urls)]: first occurrences, in order
RECURSIVE Unique(_)
Unique(urls) ==
  IF urls = <<>> THEN <<>>
  ELSE LET init == Unique(SubSeq(urls, 1, Len(urls) - 1))
           last == urls[Len(urls)]
       IN IF \E i \in 1..Len(init) : init[i] = last THEN init ELSE Append(init, last)

SelectedInputs   == {<<>>, <<1>>, <<1, 2>>}
AdditionalInputs == {<<>>}
ExcludedInputs   == {<<>>, <<1>>}
CrawlStatuses    == {"crawling", "completed", "failed"}

\* a variant of the URL set that ignores excludedUrls
CuratedUrls_KeepsExcluded(selectedUrls, additionalUrls, excludedUrls) ==
  Unique(selectedUrls \o additionalUrls)

\* uniqueUrls: selected and additional URLs, less the excluded ones, without duplicates
CuratedUrls(selectedUrls, additionalUrls, excludedUrls) ==
  Unique(FilterOut(selectedUrls \o additionalUrls, excludedUrls))

\* a variant of the status test that accepts a crawl in any status
CrawlUsable_Always(crawlStatus) == TRUE

\* crawlStatus.status === 'completed'
CrawlUsable(crawlStatus) == crawlStatus = "completed"

\* captureCurated's body for one request; getCrawlStatus throws for a
\* crawl the service does not know ("not found"), which is answered 404
CuratedHandler(selectedUrls, additionalUrls, excludedUrls, crawlStatus, options) ==
  IF Len(selectedUrls) = 0 \/ crawlStatus = "not found" \/ ~CrawlUsable(crawlStatus)
    THEN /\ multi' = [multi EXCEPT !.response =
                         IF Len(selectedUrls) # 0 /\ crawlStatus = "not found" THEN 404 ELSE 400]
         /\ multi.response = 0
         /\ UNCHANGED <<batchVars, capJobs, pc, thrown, queueJobs, faults, outsideCapture>>
    ELSE OpenBatch(CuratedUrls(selectedUrls, additionalUrls, excludedUrls), options)

\* captureCurated
CaptureCurated(optionSet) ==
  \E selectedUrls \in SelectedInputs, additionalUrls \in AdditionalInputs,
     excludedUrls \in ExcludedInputs, crawlStatus \in CrawlStatuses,
     options \in optionSet :
    /\ multi.phase = "none"
    /\ CuratedHandler(selectedUrls, additionalUrls, excludedUrls, crawlStatus, options)

\* the loop after the await: start the job just created, then the next iteration or the response
LoopResume ==
  /\ multi.phase = "loop"
  /\ LET j == Len(capJobs)
         started == [capJobs EXCEPT ![j] = BeginCapture(capJobs[j])]
         label == BeginLabel(capJobs[j])
     IN IF multi.next < Len(multi.urls)
          THEN LET job == CaptureJob(NewJobId, batch.urls[multi.next + 1], capJobs[j].options) IN
               /\ batch' = AddJob(batch, job.id, job.url)
               /\ bLast' = "add"
               /\ capJobs' = Append(started, job)
               /\ queueJobs' = QueueAddJob(queueJobs, job)
               /\ pc' = Append([pc EXCEPT ![j] = label], "inLoop")
               /\ thrown' = Append(thrown, NoError)
               /\ multi' = [multi EXCEPT !.next = @ + 1]
          ELSE /\ capJobs' = started
               /\ pc' = [pc EXCEPT ![j] = label]
               /\ multi' = [multi EXCEPT !.phase = "responded", !.response = 202]
               /\ UNCHANGED <<batch, bLast, thrown, queueJobs>>
  /\ UNCHANGED <<bOrderly, faults, outsideCapture>>

\* --- captureSinglePage ----------------------------------------------
NewPageDone(j) ==
  /\ pc[j] = "newPage"
  /\ \/ /\ Goto(j, "setUserAgent")
        /\ UNCHANGED <<capJobs, thrown, faults>>
     \/ \E e \in Errors : Raise(e) /\ Caught(j, capJobs[j], e)
  /\ UNCHANGED <<batchVars, queueJobs, multi, outsideCapture>>

SetUserAgentDone(j) ==
  /\ pc[j] = "setUserAgent"
  /\ \/ /\ SetJob(j, UpdateProgress(capJobs[j], <<"Navigating to", capJobs[j].url>>, 10))
        /\ Goto(j, "goto")
        /\ UNCHANGED <<thrown, faults>>
     \/ \E e \in Errors : Raise(e) /\ Finally(j, capJobs[j], e)
  /\ UNCHANGED <<batchVars, queueJobs, multi, outsideCapture>>

GotoDone(j) ==
  /\ pc[j] = "goto"
  /\ \/ /\ SetJob(j, UpdateProgress(CompleteStep(capJobs[j], <<"Navigate to page">>),
                                    <<"Triggering lazy-loaded content...">>, 15))
        /\ Goto(j, "lazy")
        /\ UNCHANGED <<thrown, faults>>
     \/ \E e \in Errors : Raise(e) /\ Finally(j, capJobs[j], e)
  /\ UNCHANGED <<batchVars, queueJobs, multi, outsideCapture>>

\* triggerLazyLoading swallows its errors
LazyDone(j) ==
  /\ pc[j] = "lazy"
  /\ SetJob(j, UpdateProgress(capJobs[j], <<"Extracting resources...">>, 20))
  /\ Goto(j, "extract")
  /\ UNCHANGED <<batchVars, thrown, queueJobs, multi, faults, outsideCapture>>

ExtractDone(j) ==
  /\ pc[j] = "extract"
  /\ \/ /\ SetJob(j, UpdateProgress(CompleteStep(capJobs[j], <<"Extract resources">>),
                                    <<"Downloading resources...">>, 30))
        /\ Goto(j, "download")
        /\ UNCHANGED <<thrown, faults>>
     \/ \E e \in Errors : Raise(e) /\ Finally(j, capJobs[j], e)
  /\ UNCHANGED <<batchVars, queueJobs, multi, outsideCapture>>

DownloadDone(j) ==
  /\ pc[j] = "download"
  /\ \/ /\ SetJob(j, UpdateProgress(CompleteStep(capJobs[j], <<"Download resources">>),
                                    <<"Processing HTML...">>, 70))
        /\ Goto(j, "content")
        /\ UNCHANGED <<thrown, faults>>
     \/ \E e \in Errors : Raise(e) /\ Finally(j, capJobs[j], e)
  /\ UNCHANGED <<batchVars, queueJobs, multi, outsideCapture>>

\* page.content(), then page.title()
ContentDone(j) ==
  /\ pc[j] = "content"
  /\ \/ /\ Goto(j, "processHtml")
        /\ UNCHANGED <<capJobs, thrown, faults>>
     \/ \E e \in Errors : Raise(e) /\ Finally(j, capJobs[j], e)
  /\ UNCHANGED <<batchVars, queueJobs, multi, outsideCapture>>

ProcessHtmlDone(j) ==
  /\ pc[j] = "processHtml"
  /\ \/ /\ SetJob(j, UpdateProgress(CompleteStep(capJobs[j], <<"Process HTML">>),
                                    <<"Saving capture to storage...">>, 80))
        /\ Goto(j, "save")
        /\ UNCHANGED <<thrown, faults>>
     \/ \E e \in Errors : Raise(e) /\ Finally(j, capJobs[j], e)
  /\ UNCHANGED <<batchVars, queueJobs, multi, outsideCapture>>

\* saveCapture returns {id, metadata, path: captureDir}
SaveDone(j) ==
  /\ pc[j] = "save"
  /\ \/ /\ Finally(j, Complete(CompleteStep(capJobs[j], <<"Save capture">>), "captureDir"), NoError)
        /\ UNCHANGED faults
     \/ \E e \in Errors : Raise(e) /\ Finally(j, capJobs[j], e)
  /\ UNCHANGED <<batchVars, queueJobs, multi, outsideCapture>>

\* page.close() settled: rethrow into captureWebpageAsync's catch, or return
CloseDone(j) ==
  /\ pc[j] = "close"
  /\ IF thrown[j] = NoError
       THEN Goto(j, "fulfilled") /\ UNCHANGED <<capJobs, thrown>>
       ELSE Caught(j, capJobs[j], thrown[j])
  /\ UNCHANGED <<batchVars, queueJobs, multi, faults, outsideCapture>>

\* --- captureMultiPage -----------------------------------------------
\* one Promise.allSettled round of MultiPageCrawlerService.crawl adding r pages
RECURSIVE CrawlPages(_, _)
CrawlPages(job, r) ==
  IF r = 0 THEN job
  ELSE LET n == job.stats.pagesProcessed + 1
           maxPages == job.options.multiPage.maxPages
       IN CrawlPages(
            UpdateProgress([job EXCEPT !.stats.pagesProcessed = n],
                           <<"Processing pages", n, maxPages>>, (n * 50) \div maxPages),
            r - 1)

CrawlRound(j) ==
  /\ pc[j] = "crawl"
  /\ \/ \E r \in 1..3 :
          /\ capJobs[j].stats.pagesProcessed + r <= capJobs[j].options.multiPage.maxPages
          /\ capJobs[j].stats.pagesProcessed + r <= MaxCrawled
          /\ SetJob(j, CrawlPages(capJobs[j], r))
          /\ UNCHANGED <<pc, thrown, faults>>
     \/ /\ capJobs[j].stats.pagesProcessed = 0
        /\ \E e \in Errors : Raise(e) /\ Caught(j, capJobs[j], e)
  /\ UNCHANGED <<batchVars, queueJobs, multi, outsideCapture>>

\* crawl returns its pages
CrawlDone(j) ==
  /\ pc[j] = "crawl"
  /\ LET job == capJobs[j]
         n == job.stats.pagesProcessed
     IN IF n = 0
          THEN Caught(j, job, [message |-> "No pages captured"])
          ELSE /\ SetJob(j, UpdateProgress(
                              CompleteStep([job EXCEPT !.stats.totalPages = n], <<"Crawl pages">>),
                              <<"Downloading resources from all pages...">>, 50))
               /\ Goto(j, "mdownload")
               /\ UNCHANGED thrown
  /\ UNCHANGED <<batchVars, queueJobs, multi, faults, outsideCapture>>

MultiDownloadDone(j) ==
  /\ pc[j] = "mdownload"
  /\ \/ /\ SetJob(j, UpdateProgress(CompleteStep(capJobs[j], <<"Download resources">>),
                                    <<"Saving multi-page capture to storage...">>, 85))
        /\ Goto(j, "msave")
        /\ UNCHANGED <<thrown, faults>>
     \/ \E e \in Errors : Raise(e) /\ Caught(j, capJobs[j], e)
  /\ UNCHANGED <<batchVars, queueJobs, multi, outsideCapture>>

MultiSaveDone(j) ==
  /\ pc[j] = "msave"
  /\ \/ /\ SetJob(j, Complete(CompleteStep(capJobs[j], <<"Save capture">>), "captureDir"))
        /\ Goto(j, "fulfilled")
        /\ UNCHANGED <<thrown, faults>>
     \/ \E e \in Errors : Raise(e) /\ Caught(j, capJobs[j], e)
  /\ UNCHANGED <<batchVars, queueJobs, multi, outsideCapture>>

\* --- the .then / .catch callbacks on captureWebpageAsync(job) --------
Settled(j) ==
  /\ pc[j] \in {"fulfilled", "rejected"}
  /\ Goto(j, "done")
  /\ IF FindJob(batch.jobs, j) # 0
       THEN /\ batch' = UpdateJobStatus(batch, j, IF pc[j] = "fulfilled" THEN "completed" ELSE "failed")
            /\ bLast' = "update"
            /\ bOrderly' = (bOrderly /\ multi.phase = "responded")
       ELSE UNCHANGED batchVars
  /\ UNCHANGED <<capJobs, thrown, queueJobs, multi, faults, outsideCapture>>

JobIds == 1..Len(capJobs)

IdleBatch ==
  /\ batch = BatchJob(<<>>)
  /\ bLast = "new"
  /\ bOrderly = TRUE

\* The server run with MAX_CONCURRENT_JOBS one below the default.
InitCapture ==
  /\ IdleBatch
  /\ IdleCapture
  /\ maxConcurrent = DefaultMaxConcurrent - 1
  /\ IdleQueue
  /\ IdleStore
  /\ IdleDownload

InitJob ==
  /\ IdleBatch
  /\ IdleCapture
  /\ maxConcurrent = DefaultMaxConcurrent
  /\ IdleQueue
  /\ IdleStore
  /\ IdleDownload

InitQueueService ==
  /\ IdleBatch
  /\ IdleCapture
  /\ InitQueue
  /\ IdleStore
  /\ IdleDownload

SpecQueue == InitQueueService /\ [][NextQueue]_vars

\* Concurrent requests to the controller, each job a single-page capture.
NextCapture ==
  \/ StartCapture(MaxJobs, SinglePageOptions)
  \/ CaptureMulti(SinglePageOptions)
  \/ CaptureCurated(SinglePageOptions)
  \/ LoopResume
  \/ \E j \in JobIds : StartCaptureResume(j)
  \/ \E j \in JobIds : NewPageDone(j)
  \/ \E j \in JobIds : SetUserAgentDone(j)
  \/ \E j \in JobIds : GotoDone(j)
  \/ \E j \in JobIds : LazyDone(j)
  \/ \E j \in JobIds : ExtractDone(j)
  \/ \E j \in JobIds : DownloadDone(j)
  \/ \E j \in JobIds : ContentDone(j)
  \/ \E j \in JobIds : ProcessHtmlDone(j)
  \/ \E j \in JobIds : SaveDone(j)
  \/ \E j \in JobIds : CloseDone(j)
  \/ \E j \in JobIds : Settled(j)

SpecCapture == InitCapture /\ [][NextCapture]_vars

\* startCapture requests with any options: the life of a capture job.
NextJob ==
  \/ StartCapture(MaxSoloJobs, OptionInputs)
  \/ \E j \in JobIds : StartCaptureResume(j)
  \/ \E j \in JobIds : NewPageDone(j)
  \/ \E j \in JobIds : SetUserAgentDone(j)
  \/ \E j \in JobIds : GotoDone(j)
  \/ \E j \in JobIds : LazyDone(j)
  \/ \E j \in JobIds : ExtractDone(j)
  \/ \E j \in JobIds : DownloadDone(j)
  \/ \E j \in JobIds : ContentDone(j)
  \/ \E j \in JobIds : ProcessHtmlDone(j)
  \/ \E j \in JobIds : SaveDone(j)
  \/ \E j \in JobIds : CloseDone(j)
  \/ \E j \in JobIds : CrawlRound(j)
  \/ \E j \in JobIds : CrawlDone(j)
  \/ \E j \in JobIds : MultiDownloadDone(j)
  \/ \E j \in JobIds : MultiSaveDone(j)
  \/ \E j \in JobIds : Settled(j)

SpecJob == InitJob /\ [][NextJob]_vars

\* ---------------------------------------------------------------------
\* The BatchJob object driven through its methods
\* ---------------------------------------------------------------------
InitBatch ==
  /\ \E n \in 0..MaxUrls : batch = BatchJob(UrlArray(n))
  /\ bLast = "new"
  /\ bOrderly = TRUE
  /\ IdleCapture
  /\ maxConcurrent = DefaultMaxConcurrent
  /\ IdleQueue
  /\ IdleStore
  /\ IdleDownload

\* one iteration of the controller's loop: one member per URL, in order
BatchAddJob ==
  /\ Len(batch.jobs) < Len(batch.urls)
  /\ LET k == Len(batch.jobs) + 1 IN batch' = AddJob(batch, k, batch.urls[k])
  /\ bLast' = "add"
  /\ UNCHANGED <<bOrderly, outsideBatch>>

BatchUpdateJobStatus ==
  \E i \in 1..Len(batch.jobs), s \in ReportedStatuses :
    /\ batch' = UpdateJobStatus(batch, batch.jobs[i].jobId, s)
    /\ bLast' = "update"
    /\ bOrderly' = (bOrderly /\ Len(batch.jobs) = Len(batch.urls)
                             /\ batch.jobs[i].updatedAt = Null)
    /\ UNCHANGED outsideBatch

NextBatch == BatchAddJob \/ BatchUpdateJobStatus

SpecBatch == InitBatch /\ [][NextBatch]_vars

\* ---------------------------------------------------------------------
\* CaptureStorageService: concurrent calls, one step per awaited fs call
\* ---------------------------------------------------------------------
\* An HTML document is represented by its length in bytes.
HtmlInputs == {1, 2}

\* options.notes of a saveCapture call, as its characters: none ('') or 'Note'
NotesInputs == {<<>>, <<"N", "o", "t", "e">>}

\* updateMetadata's updates: a new title, or none (updates.title undefined),
\* and a url when the payload names one (url is not among allowedFields)
UpdateInputs ==
  {[title |-> "Second title", url |-> <<>>], [title |-> Null, url |-> <<>>],
   [title |-> "Second title", url |-> <<0>>]}

NoMetadata ==
  [id |-> 0, url |-> 0, title |-> Null, capturedAt |-> 0, stats |-> [totalSize |-> 0],
   notes |-> <<>>, path |-> Null]

\* the metadata object saveCapture builds; the capture of call t is stamped t
Metadata(captureId, url, title, now, totalSize, notes) ==
  [id |-> captureId, url |-> url, title |-> title, capturedAt |-> now,
   stats |-> [totalSize |-> totalSize], notes |-> notes, path |-> Null]

\* the index entry addToIndex and updateInIndex build from a metadata object
Summary(metadata) ==
  [id |-> metadata.id, url |-> metadata.url, title |-> metadata.title,
   capturedAt |-> metadata.capturedAt, size |-> metadata.stats.totalSize]

\* calculateDirectorySize(captureDir): no resource was copied, metadata.json is not written yet
DirectorySize(dir) == dir.html

\* index.captures.findIndex(c => c.id === id): 0 when none
FindCapture(captures, id) ==
  IF \E i \in 1..Len(captures) : captures[i].id = id
    THEN CHOOSE i \in 1..Len(captures) :
           /\ captures[i].id = id
           /\ \A k \in 1..(i - 1) : captures[k].id # id
    ELSE 0

\* index.captures.filter(c => c.id !== id)
RECURSIVE RemoveCapture(_, _)
RemoveCapture(captures, id) ==
  IF captures = <<>> THEN <<>>
  ELSE IF Head(captures).id = id THEN RemoveCapture(Tail(captures), id)
  ELSE <<Head(captures)>> \o RemoveCapture(Tail(captures), id)

\* updateMetadata's loop over allowedFields, as far as the index reads them
ApplyUpdates(capture, updates) ==
  IF updates.title # Null THEN [capture EXCEPT !.title = updates.title] ELSE capture

\* a call in progress: its arguments and locals, the capture job awaiting it
\* (0: none) and the error it threw
Task(op, id, label) ==
  [op |-> op, id |-> id, pc |-> label, html |-> 0, updates |-> [title |-> Null, url |-> <<>>],
   metadata |-> NoMetadata, toWrite |-> <<>>, job |-> 0, error |-> NoError,
   filters |-> [sort |-> Null, order |-> Null, search |-> <<>>], listed |-> <<>>,
   notes |-> <<>>]

TaskIds == 1..Len(tasks)

SetTask(t, task) == tasks' = [tasks EXCEPT ![t] = task]

\* the ids a client can name: those a saveCapture call has returned
ReturnedIds == {tasks[t].id : t \in {u \in TaskIds : tasks[u].op = "saveCapture" /\ tasks[u].pc = "done"}}

\* The errors the file system raises.
StoreErrors == {[message |-> "ENOSPC: no space left on device"]}

\* a rejected fs call in saveCapture that is rethrown without the cleanup
Rejected_NoCleanup(t) ==
  /\ faults < MaxFaults
  /\ faults' = faults + 1
  /\ \E e \in StoreErrors : SetTask(t, [tasks[t] EXCEPT !.error = e, !.pc = "failed"])

\* an awaited fs call rejects: saveCapture goes to its cleanup, the other calls throw
Rejected(t) ==
  /\ faults < MaxFaults
  /\ faults' = faults + 1
  /\ \E e \in StoreErrors :
       SetTask(t, [tasks[t] EXCEPT !.error = e,
                                   !.pc = IF tasks[t].op # "saveCapture" THEN "failed"
                                          ELSE "cleanup"])

\* saveCapture(url, title, resources, html) up to its first await
SaveCapture ==
  \E html \in HtmlInputs, notes \in NotesInputs :
    /\ Len(tasks) < MaxOps
    /\ tasks' = Append(tasks, [Task("saveCapture", Len(dirs) + 1, "mkdir")
                                 EXCEPT !.html = html, !.notes = notes])
    /\ dirs' = Append(dirs, <<>>)
    /\ UNCHANGED <<index, faults, outsideStore>>

\* the fs.mkdir calls of the capture directory
SaveMkdirDone(t) ==
  /\ tasks[t].pc = "mkdir"
  /\ \/ /\ dirs' = [dirs EXCEPT ![tasks[t].id] = << [html |-> 0, metadata |-> <<>>] >>]
        /\ SetTask(t, [tasks[t] EXCEPT !.pc = "writeHtml"])
        /\ UNCHANGED faults
     \/ Rejected(t) /\ UNCHANGED dirs
  /\ UNCHANGED <<index, outsideStore>>

\* fs.writeFile(index.html); copyResources has nothing to copy
SaveHtmlDone(t) ==
  /\ tasks[t].pc = "writeHtml"
  /\ \/ /\ dirs' = [dirs EXCEPT ![tasks[t].id] = << [@[1] EXCEPT !.html = tasks[t].html] >>]
        /\ SetTask(t, [tasks[t] EXCEPT !.pc = "size"])
        /\ UNCHANGED faults
     \/ Rejected(t) /\ UNCHANGED dirs
  /\ UNCHANGED <<index, outsideStore>>

\* calculateDirectorySize returned: build the metadata, write metadata.json
SaveSizeDone(t) ==
  /\ tasks[t].pc = "size"
  /\ LET id == tasks[t].id
         metadata == Metadata(id, id, "First title", t, DirectorySize(dirs[id][1]), tasks[t].notes)
     IN SetTask(t, [tasks[t] EXCEPT !.pc = "writeMetadata", !.metadata = metadata])
  /\ UNCHANGED <<index, dirs, faults, outsideStore>>

\* fs.writeFile(metadata.json) settled, in saveCapture and in updateMetadata;
\* it rejects (ENOENT) when the capture directory is gone
WriteMetadataDone(t) ==
  /\ tasks[t].pc = "writeMetadata"
  /\ LET id == tasks[t].id IN
       \/ /\ dirs[id] # <<>>
          /\ dirs' = [dirs EXCEPT ![id] = << [@[1] EXCEPT !.metadata = <<tasks[t].metadata>>] >>]
          /\ SetTask(t, [tasks[t] EXCEPT !.pc = "loadIndex"])
          /\ UNCHANGED faults
       \/ /\ dirs[id] = <<>>
          /\ SetTask(t, [tasks[t] EXCEPT !.pc = "failed"])
          /\ UNCHANGED <<dirs, faults>>
       \/ Rejected(t) /\ UNCHANGED dirs
  /\ UNCHANGED <<index, outsideStore>>

\* loadIndex returned, in addToIndex, removeFromIndex and updateInIndex: the
\* index object is changed in memory and handed to saveIndex
LoadIndexDone(t) ==
  /\ tasks[t].pc = "loadIndex"
  /\ LET id == tasks[t].id
         idx == FindCapture(index, id)
     IN CASE tasks[t].op = "saveCapture" ->
               SetTask(t, [tasks[t] EXCEPT !.pc = "saveIndex",
                                           !.toWrite = Append(index, Summary(tasks[t].metadata))])
          [] tasks[t].op = "deleteCapture" ->
               SetTask(t, [tasks[t] EXCEPT !.pc = "saveIndex",
                                           !.toWrite = RemoveCapture(index, id)])
          [] OTHER ->
               IF idx # 0
                 THEN SetTask(t, [tasks[t] EXCEPT
                                    !.pc = "saveIndex",
                                    !.toWrite = [index EXCEPT ![idx] = Summary(tasks[t].metadata)]])
                 ELSE SetTask(t, [tasks[t] EXCEPT !.pc = "done"])
  /\ UNCHANGED <<index, dirs, faults, outsideStore>>

\* saveIndex settled: index.json holds what this call wrote
SaveIndexDone(t) ==
  /\ tasks[t].pc = "saveIndex"
  /\ \/ /\ index' = tasks[t].toWrite
        /\ SetTask(t, [tasks[t] EXCEPT !.pc = IF tasks[t].op = "deleteCapture" THEN "rm" ELSE "done"])
        /\ UNCHANGED faults
     \/ Rejected(t) /\ UNCHANGED index
  /\ UNCHANGED <<dirs, outsideStore>>

\* fs.rm(captureDir, {recursive, force}) settled: in deleteCapture, and in saveCapture's cleanup
RmDone(t) ==
  /\ tasks[t].pc \in {"rm", "cleanup"}
  /\ dirs' = [dirs EXCEPT ![tasks[t].id] = <<>>]
  /\ SetTask(t, [tasks[t] EXCEPT !.pc = IF @ = "rm" THEN "done" ELSE "failed"])
  /\ UNCHANGED <<index, faults, outsideStore>>

\* deleteCapture(id) up to its first await
DeleteCapture ==
  \E id \in ReturnedIds :
    /\ Len(tasks) < MaxOps
    /\ tasks' = Append(tasks, Task("deleteCapture", id, "loadIndex"))
    /\ UNCHANGED <<index, dirs, faults, outsideStore>>

\* updateMetadata(id, updates) up to its first await
UpdateMetadata ==
  \E id \in ReturnedIds, updates \in UpdateInputs :
    /\ Len(tasks) < MaxOps
    /\ tasks' = Append(tasks, [Task("updateMetadata", id, "getCapture") EXCEPT !.updates = updates])
    /\ UNCHANGED <<index, dirs, faults, outsideStore>>

\* getCapture returned {...metadata, path}, or threw 'Capture not found'
GetCaptureDone(t) ==
  /\ tasks[t].pc = "getCapture"
  /\ LET id == tasks[t].id IN
       IF dirs[id] # <<>> /\ dirs[id][1].metadata # <<>>
         THEN LET capture == [dirs[id][1].metadata[1] EXCEPT !.path = "captureDir"]
              IN SetTask(t, [tasks[t] EXCEPT !.pc = "writeMetadata",
                                             !.metadata = ApplyUpdates(capture, tasks[t].updates)])
         ELSE SetTask(t, [tasks[t] EXCEPT !.pc = "failed"])
  /\ UNCHANGED <<index, dirs, faults, outsideStore>>

\* filters.search of a listCaptures call, as its characters: none, 'nO'
\* (in 'Note' only), 'TI' (in both titles) and '/2' (in the second URL)
SearchInputs == {<<>>, <<"n", "O">>, <<"T", "I">>, <<"/", "2">>}

\* listCaptures' filters: the sort key, the order and the search string
\* (no tag, collection, limit or offset)
FilterInputs == [sort : {"date", "size"}, order : {"asc", "desc"}, search : SearchInputs]

\* the characters of the titles and of the URLs of the model (the URL of
\* capture i is written /i)
TitleChars(title) ==
  CASE title = "First title" -> <<"F", "i", "r", "s", "t", " ", "t", "i", "t", "l", "e">>
    [] title = "Second title" -> <<"S", "e", "c", "o", "n", "d", " ", "t", "i", "t", "l", "e">>
    [] OTHER -> <<>>

UrlChars(url) == <<"/", <<"0", "1", "2", "3", "4", "5", "6", "7", "8", "9">>[url + 1]>>

\* String.prototype.toLowerCase, on the letters the model writes in upper case
ToLowerCase(text) ==
  [i \in 1..Len(text) |->
     CASE text[i] = "F" -> "f" [] text[i] = "S" -> "s" [] text[i] = "N" -> "n"
       [] text[i] = "O" -> "o" [] text[i] = "T" -> "t" [] text[i] = "I" -> "i"
       [] OTHER -> text[i]]

\* String.prototype.includes
Includes(text, part) ==
  \E i \in 0..(Len(text) - Len(part)) : SubSeq(text, i + 1, i + Len(part)) = part

\* c.notes?.toLowerCase().includes(search), of an entry of index.captures
NotesInclude(c, search) ==
  IF "notes" \in DOMAIN c THEN Includes(ToLowerCase(c.notes), search) ELSE FALSE

\* the filter listCaptures applies when filters.search is given
SearchCaptures(captures, search) ==
  IF search = <<>> THEN captures
  ELSE LET lower == ToLowerCase(search)
           found(c) == \/ Includes(ToLowerCase(TitleChars(c.title)), lower)
                       \/ Includes(ToLowerCase(UrlChars(c.url)), lower)
                       \/ NotesInclude(c, lower)
       IN SelectSeq(captures, found)

\* a.stats?.totalSize || 0, of an entry of index.captures
StatsTotalSize(c) == IF "stats" \in DOMAIN c THEN c.stats.totalSize ELSE 0

\* the comparator listCaptures hands to captures.sort
Comparison(a, b, filters) ==
  LET comparison == CASE filters.sort = "date" -> a.capturedAt - b.capturedAt
                      [] filters.sort = "size" -> StatsTotalSize(a) - StatsTotalSize(b)
                      [] OTHER -> 0
  IN IF filters.order = "desc" THEN 0 - comparison ELSE comparison

\* Array.prototype.sort is stable: c goes behind the entries that compare
\* equal to it
RECURSIVE InsertSorted(_, _, _)
InsertSorted(sorted, c, filters) ==
  IF sorted = <<>> THEN <<c>>
  ELSE IF Comparison(Head(sorted), c, filters) > 0 THEN <<c>> \o sorted
  ELSE <<Head(sorted)>> \o InsertSorted(Tail(sorted), c, filters)

RECURSIVE SortCaptures(_, _)
SortCaptures(captures, filters) ==
  IF captures = <<>> THEN <<>>
  ELSE InsertSorted(SortCaptures(SubSeq(captures, 1, Len(captures) - 1), filters),
                    captures[Len(captures)], filters)

\* listCaptures(filters) up to its await of loadIndex
ListCaptures ==
  \E filters \in FilterInputs :
    /\ Len(tasks) < MaxOps
    /\ tasks' = Append(tasks, [Task("listCaptures", 0, "listIndex") EXCEPT !.filters = filters])
    /\ UNCHANGED <<index, dirs, faults, outsideStore>>

\* loadIndex returned: listCaptures sorts a copy of index.captures and
\* returns the first page of it (limit 50)
ListIndexDone(t) ==
  /\ tasks[t].pc = "listIndex"
  /\ SetTask(t, [tasks[t] EXCEPT !.pc = "done",
                                 !.listed = SortCaptures(SearchCaptures(index, tasks[t].filters.search),
                                                         tasks[t].filters)])
  /\ UNCHANGED <<index, dirs, faults, outsideStore>>

InitStore ==
  /\ IdleBatch
  /\ IdleCapture
  /\ maxConcurrent = DefaultMaxConcurrent
  /\ IdleQueue
  /\ IdleStore
  /\ IdleDownload

NextStore ==
  \/ SaveCapture
  \/ DeleteCapture
  \/ UpdateMetadata
  \/ \E t \in TaskIds : SaveMkdirDone(t)
  \/ \E t \in TaskIds : SaveHtmlDone(t)
  \/ \E t \in TaskIds : SaveSizeDone(t)
  \/ \E t \in TaskIds : WriteMetadataDone(t)
  \/ \E t \in TaskIds : LoadIndexDone(t)
  \/ \E t \in TaskIds : SaveIndexDone(t)
  \/ \E t \in TaskIds : RmDone(t)
  \/ \E t \in TaskIds : GetCaptureDone(t)
  \/ ListCaptures
  \/ \E t \in TaskIds : ListIndexDone(t)

SpecStore == InitStore /\ [][NextStore]_vars

\* ---------------------------------------------------------------------
\* Single-page capture jobs with their saveCapture calls followed step by step
\* ---------------------------------------------------------------------
\* processHtml settled; captureStorage.saveCapture(...) runs to its first await
ProcessHtmlThenSave(j) ==
  /\ pc[j] = "processHtml"
  /\ \/ \E html \in HtmlInputs :
          /\ SetJob(j, UpdateProgress(CompleteStep(capJobs[j], <<"Process HTML">>),
                                      <<"Saving capture to storage...">>, 80))
          /\ Goto(j, "save")
          /\ tasks' = Append(tasks, [Task("saveCapture", Len(dirs) + 1, "mkdir")
                                       EXCEPT !.html = html, !.job = j])
          /\ dirs' = Append(dirs, <<>>)
          /\ UNCHANGED <<thrown, faults>>
     \/ /\ \E e \in Errors : Raise(e) /\ Finally(j, capJobs[j], e)
        /\ UNCHANGED <<dirs, tasks>>
  /\ UNCHANGED <<batchVars, queueJobs, multi, queueVars, index, downloadVars>>

\* the awaited saveCapture call returned {id, metadata, path}, or threw
SaveSettled(j) ==
  /\ pc[j] = "save"
  /\ \E t \in TaskIds :
       /\ tasks[t].job = j
       /\ tasks[t].pc \in {"done", "failed"}
       /\ IF tasks[t].pc = "done"
            THEN Finally(j, Complete(CompleteStep(capJobs[j], <<"Save capture">>), "captureDir"),
                         NoError)
            ELSE Finally(j, capJobs[j], tasks[t].error)
  /\ UNCHANGED <<batchVars, queueJobs, multi, faults, outsideCapture>>

InitSave ==
  /\ IdleBatch
  /\ IdleCapture
  /\ maxConcurrent = DefaultMaxConcurrent
  /\ IdleQueue
  /\ IdleStore
  /\ IdleDownload

NextSave ==
  \/ StartCapture(MaxSoloJobs, SinglePageOptions)
  \/ \E j \in JobIds : StartCaptureResume(j)
  \/ \E j \in JobIds : NewPageDone(j)
  \/ \E j \in JobIds : SetUserAgentDone(j)
  \/ \E j \in JobIds : GotoDone(j)
  \/ \E j \in JobIds : LazyDone(j)
  \/ \E j \in JobIds : ExtractDone(j)
  \/ \E j \in JobIds : DownloadDone(j)
  \/ \E j \in JobIds : ContentDone(j)
  \/ \E j \in JobIds : ProcessHtmlThenSave(j)
  \/ \E t \in TaskIds : SaveMkdirDone(t)
  \/ \E t \in TaskIds : SaveHtmlDone(t)
  \/ \E t \in TaskIds : SaveSizeDone(t)
  \/ \E t \in TaskIds : WriteMetadataDone(t)
  \/ \E t \in TaskIds : LoadIndexDone(t)
  \/ \E t \in TaskIds : SaveIndexDone(t)
  \/ \E t \in TaskIds : RmDone(t)
  \/ \E j \in JobIds : SaveSettled(j)
  \/ \E j \in JobIds : CloseDone(j)
  \/ \E j \in JobIds : Settled(j)

SpecSave == InitSave /\ [][NextSave]_vars

\* ---------------------------------------------------------------------
\* Properties of the capture store
\* ---------------------------------------------------------------------
IndexIds == {index[i].id : i \in 1..Len(index)}

CalledWith(op, id) == \E t \in TaskIds : tasks[t].op = op /\ tasks[t].id = id

Returned(op, id) == \E t \in TaskIds : tasks[t].op = op /\ tasks[t].id = id /\ tasks[t].pc = "done"

\* C9: whatever the interleaving of saveCapture, deleteCapture and
\* updateMetadata calls, every capture whose saveCapture returned and for
\* which no deleteCapture was called has an index entry, and a capture whose
\* deleteCapture returned has none.
C9_NoIndexUpdateLost ==
  \A id \in 1..Len(dirs) :
    /\ (Returned("saveCapture", id) /\ ~CalledWith("deleteCapture", id)) => id \in IndexIds
    /\ Returned("deleteCapture", id) => id \notin IndexIds

Quiescent == \A t \in TaskIds : tasks[t].pc \in {"done", "failed"}

\* C10: once every saveCapture, updateMetadata and deleteCapture call has
\* returned or thrown, every id in the index has a capture directory with a
\* metadata.json whose title, url, capturedAt and stats.totalSize match the
\* index entry.
C10_IndexMatchesMetadata ==
  Quiescent =>
    \A i \in 1..Len(index) :
      LET id == index[i].id IN
        /\ dirs[id] # <<>>
        /\ dirs[id][1].metadata # <<>>
        /\ LET metadata == dirs[id][1].metadata[1] IN
             /\ metadata.title = index[i].title
             /\ metadata.url = index[i].url
             /\ metadata.capturedAt = index[i].capturedAt
             /\ metadata.stats.totalSize = index[i].size

HasMetadata(id) == dirs[id] # <<>> /\ dirs[id][1].metadata # <<>>

\* C11: at every step of saveCapture and deleteCapture calls, an id that a
\* reader finds in the index has its metadata.json on disk.
C11_IndexedHasMetadata ==
  (\A t \in TaskIds : tasks[t].op \in {"saveCapture", "deleteCapture"})
    => \A i \in 1..Len(index) : HasMetadata(index[i].id)

\* ---------------------------------------------------------------------
\* Properties of capture jobs and of the controller
\* ---------------------------------------------------------------------
Finished(j) == pc[j] = "done"

BatchMembersFinished ==
  /\ multi.phase = "responded"
  /\ Len(batch.jobs) > 0
  /\ \A i \in 1..Len(batch.jobs) : Finished(batch.jobs[i].jobId)

\* C2: in captureMulti and captureCurated, a member whose capture job ended
\* failed has the batch entry failed, never completed; a finished batch with
\* failed and completed members is partial and one whose members all failed
\* is failed.
C2_FailedMemberReported ==
  /\ \A i \in 1..Len(batch.jobs) :
       LET j == batch.jobs[i].jobId IN
         /\ (Finished(j) /\ capJobs[j].status = "failed") => batch.jobs[i].status = "failed"
         /\ capJobs[j].status = "failed" => batch.jobs[i].status # "completed"
  /\ BatchMembersFinished =>
       LET S == {capJobs[batch.jobs[i].jobId].status : i \in 1..Len(batch.jobs)} IN
         /\ S = {"completed", "failed"} => batch.status = "partial"
         /\ S = {"failed"} => batch.status = "failed"

\* C4: a completed capture job has an output path and progress 100; a failed
\* capture job has an error.
C4_TerminalFields ==
  \A j \in JobIds :
    /\ capJobs[j].status = "completed" =>
         capJobs[j].outputPath # Null /\ capJobs[j].progress = 100
    /\ capJobs[j].status = "failed" => capJobs[j].error # Null

C4_Witness ==
  \E j, k \in JobIds :
    /\ capJobs[j].status = "completed" /\ capJobs[j].options.multiPage.enabled
    /\ capJobs[k].status = "failed"

InProgressSteps(job) == {i \in 1..Len(job.steps) : job.steps[i].status = "in_progress"}

\* C5: the step log of a capture job never has more than one entry in
\* state in_progress.
C5_OneStepInProgress ==
  \A j \in JobIds : Cardinality(InProgressSteps(capJobs[j])) <= 1

JobTransitions ==
  { <<"pending", "processing">>, <<"processing", "completed">>, <<"processing", "failed">> }

\* C6: the status of a capture job changes only pending -> processing and
\* processing -> completed or failed; in particular it never moves backwards
\* and never leaves completed or failed, whichever step throws.
C6_JobMonotonic ==
  [][ \A j \in JobIds :
        \/ capJobs'[j].status = capJobs[j].status
        \/ <<capJobs[j].status, capJobs'[j].status>> \in JobTransitions ]_vars

C6_Witness ==
  \E j \in JobIds :
    /\ Finished(j) /\ capJobs[j].status = "failed"
    /\ ~capJobs[j].options.multiPage.enabled
    /\ Len(capJobs[j].steps) >= 3

Processing == {j \in JobIds : capJobs[j].status = "processing"}

\* C7: the number of capture jobs in status processing never exceeds
\* maxConcurrent.
C7_ProcessingBounded == Cardinality(Processing) <= maxConcurrent

\* C8: startJob on a pending job while running >= maxConcurrent leaves the
\* job pending and the running counter unchanged.
C8_StartJobRefuses ==
  (qCall.op = "startJob" /\ qCall.status = "pending" /\ qCall.running >= maxConcurrent)
    => (running = qCall.running /\ StatusOf(qCall.id) = "pending")

\* ---------------------------------------------------------------------
\* Properties of the batch tracker
\* ---------------------------------------------------------------------
AllAdded == Len(batch.jobs) = Len(batch.urls)

MemberStatusSet(b) == {b.jobs[i].status : i \in 1..Len(b.jobs)}

\* The derivation rule of the data model, applied to the member statuses.
RuleStatus(b) ==
  LET S == MemberStatusSet(b) IN
  IF S = {"completed"} THEN "completed"
  ELSE IF S = {"failed"} THEN "failed"
  ELSE IF "completed" \in S /\ "failed" \in S /\ S \cap {"pending", "processing"} = {}
    THEN "partial"
  ELSE IF \E i \in 1..Len(b.jobs) : b.jobs[i].updatedAt # Null THEN "in_progress"
  ELSE "pending"

TerminalBatch == {"completed", "partial", "failed"}

BatchRank(s) == CASE s = "pending" -> 0 [] s = "in_progress" -> 1 [] OTHER -> 2

NoMemberOpen(b) == MemberStatusSet(b) \cap {"pending", "processing"} = {}

\* C3: when all members are added first and each then reaches completed or
\* failed exactly once, the batch status never moves backwards along
\* pending -> in_progress -> {completed, partial, failed}, a terminal status
\* is never left, and a terminal status is held only when no member is
\* pending or processing.
C3_BatchForward ==
  [][ bOrderly' =>
        /\ BatchRank(batch'.status) >= BatchRank(batch.status)
        /\ (batch.status \in TerminalBatch => batch'.status = batch.status)
        /\ (batch'.status \in TerminalBatch => AllAdded' /\ NoMemberOpen(batch')) ]_vars

C3_Witness ==
  /\ bOrderly /\ AllAdded /\ bLast = "update" /\ Len(batch.jobs) >= 2
  /\ batch.status = "partial"

C13_UpdateAllOrNothing ==
  \A t \in TaskIds :
    ( /\ tasks[t].op = "updateMetadata" /\ tasks[t].pc = "failed"
      /\ tasks[t].updates.title # Null
      /\ \A u \in TaskIds \ {t} :
           ~(tasks[u].op = "updateMetadata" /\ tasks[u].id = tasks[t].id) )
    => /\ HasMetadata(tasks[t].id) =>
            dirs[tasks[t].id][1].metadata[1].title # tasks[t].updates.title
       /\ \A i \in 1..Len(index) :
            index[i].id = tasks[t].id => index[i].title # tasks[t].updates.title

\* ---------------------------------------------------------------------
\* RateLimiter.waitForDomain under parallel callers (rate-limiter.js)
\* ---------------------------------------------------------------------
CallerIds == 1..Len(callers)

\* waitForDomain(url) up to its await: return at once, or start the timer
WaitForDomain ==
  \E domain \in DomainInputs :
    /\ Len(callers) < MaxCallers
    /\ LET now == clock
           lastRequest == lastRequestTime[domain]
           timeSinceLastRequest == now - lastRequest
       IN IF timeSinceLastRequest < MinDelay
            THEN /\ callers' = Append(callers, [domain |-> domain, pc |-> "sleeping",
                                                wake |-> now + (MinDelay - timeSinceLastRequest),
                                                returned |-> 0])
                 /\ UNCHANGED lastRequestTime
            ELSE /\ callers' = Append(callers, [domain |-> domain, pc |-> "returned",
                                                wake |-> 0, returned |-> now])
                 /\ lastRequestTime' = [lastRequestTime EXCEPT ![domain] = now]
    /\ UNCHANGED <<clock, outsideLimiter>>

\* the setTimeout of a waiting caller fires: lastRequestTime.set(domain, Date.now()), return
TimerFired(c) ==
  /\ callers[c].pc = "sleeping"
  /\ clock >= callers[c].wake
  /\ lastRequestTime' = [lastRequestTime EXCEPT ![callers[c].domain] = clock]
  /\ callers' = [callers EXCEPT ![c].pc = "returned", ![c].returned = clock]
  /\ UNCHANGED <<clock, outsideLimiter>>

\* time passes, half a delay at a time; a timer that is due fires first
Tick ==
  /\ clock < MinDelay + MaxTicks * (MinDelay \div 2)
  /\ \A c \in CallerIds : callers[c].pc = "sleeping" => clock < callers[c].wake
  /\ clock' = clock + MinDelay \div 2
  /\ UNCHANGED <<lastRequestTime, callers, outsideLimiter>>

InitLimiter ==
  /\ IdleBatch
  /\ IdleCapture
  /\ maxConcurrent = DefaultMaxConcurrent
  /\ IdleQueue
  /\ IdleStore
  /\ IdleDownload

NextLimiter ==
  \/ WaitForDomain
  \/ \E c \in CallerIds : TimerFired(c)
  \/ Tick

SpecLimiter == InitLimiter /\ [][NextLimiter]_vars

\* C14: no two waitForDomain callers for the same domain return less than
\* minDelay apart, however the parallel callers interleave.
C14_DeparturesSpaced ==
  \A c, d \in CallerIds :
    ( /\ c # d
      /\ callers[c].pc = "returned" /\ callers[d].pc = "returned"
      /\ callers[c].domain = callers[d].domain
      /\ callers[c].returned <= callers[d].returned )
    => callers[d].returned - callers[c].returned >= MinDelay

\* ---------------------------------------------------------------------
\* ResourceDownloader.downloadResource: concurrent calls on one downloader,
\* one step per awaited call
\* ---------------------------------------------------------------------
\* A URL is its host, the directory and the basename (name and extension) of
\* its path, and its query; serves and bytes are what the server answers a
\* successful GET with (content-type header, body length).
LogoUrl(host) ==
  [host |-> host, dir |-> "/img", base |-> "logo", ext |-> ".png", query |-> "",
   serves |-> "image/png", bytes |-> 1]

LoadUrl(query) ==
  [host |-> "a.example", dir |-> "/w", base |-> "load", ext |-> ".php", query |-> query,
   serves |-> "text/css", bytes |-> 2]

FontUrl ==
  [host |-> "a.example", dir |-> "/font", base |-> "", ext |-> "", query |-> "",
   serves |-> "font/woff2", bytes |-> 1]

ScriptUrl ==
  [host |-> "a.example", dir |-> "/js", base |-> "app", ext |-> ".js", query |-> "",
   serves |-> "application/javascript", bytes |-> 2]

UrlInputs ==
  {LogoUrl("a.example"), LogoUrl("b.example"), LoadUrl("?m=1"), LoadUrl("?m=2"), FontUrl,
   ScriptUrl}

SubfolderInputs == {"images"}

\* what axios.get settles with: a 2xx response, or a rejection carrying the response
ResponseInputs ==
  { [status |-> 200, retryAfter |-> Null],
    [status |-> 429, retryAfter |-> "1"],
    [status |-> 429, retryAfter |-> Null],
    [status |-> 404, retryAfter |-> Null] }

\* crypto.createHash('md5').update(url).digest('hex').substring(0, 8): taken
\* as injective on UrlInputs, so a digest is represented by the URL it is of
Md5Prefix(url) == <<url.host, url.dir, url.base, url.ext, url.query>>

GetExtensionFromContentType(contentType) ==
  CASE contentType = "image/png" -> ".png"
    [] contentType = "text/css" -> ".css"
    [] contentType = "application/javascript" -> ".js"
    [] contentType = "font/woff2" -> ".woff2"
    [] OTHER -> ""

GenericFilenames == {<<"load", ".php">>, <<"index", ".php">>, <<"api", ".php">>, <<"script", ".php">>}

\* generateFilename(url, contentType); a filename is <<name, digest, extension>>,
\* digest <<>> when the name carries none. The inputs' names need no
\* sanitising and are shorter than 100 characters.
GenerateFilename(url, contentType) ==
  LET hasQueryString == url.query # ""
      contentExt == GetExtensionFromContentType(contentType)
  IN IF hasQueryString /\ <<url.base, url.ext>> \in GenericFilenames
       THEN <<url.base, Md5Prefix(url), IF contentExt # "" THEN contentExt ELSE url.ext>>
     ELSE IF url.ext = ""
       THEN <<"resource", Md5Prefix(url), contentExt>>
     ELSE <<url.base, <<>>, url.ext>>

\* path.join(this.tempDir, subfolder, filename)
LocalPath(subfolder, filename) == <<"tempDir", subfolder, filename>>

Undefined == "<undefined>"

\* the value a call returns, seen through the properties a caller reads;
\* type is what typeof gives, text the value of a string
Descriptor(url, localPath, filename, size, contentType) ==
  [type |-> "object", text |-> <<>>, url |-> <<url>>, localPath |-> <<localPath>>,
   filename |-> <<filename>>, size |-> <<size>>, contentType |-> <<contentType>>]

\* a string has none of the descriptor's properties
StringValue(text) ==
  [type |-> "string", text |-> <<text>>, url |-> <<>>, localPath |-> <<>>,
   filename |-> <<>>, size |-> <<>>, contentType |-> <<>>]

NoValue ==
  [type |-> Undefined, text |-> <<>>, url |-> <<>>, localPath |-> <<>>,
   filename |-> <<>>, size |-> <<>>, contentType |-> <<>>]

DownloadIds == 1..Len(downloads)

\* this.downloadedResources.has(url) / .get(url) / .set(url, localPath)
CacheHas(url) == \E e \in downloadedResources : e[1] = url

CacheGet(url) == (CHOOSE e \in downloadedResources : e[1] = url)[2]

CacheSet(url, localPath) ==
  {e \in downloadedResources : e[1] # url} \cup {<<url, localPath>>}

\* the top of downloadResource, run by a call and again by each retry: the
\* inputs are absolute URLs, so nothing is normalised; a cached URL returns
\* what the map holds, any other waits for its domain
Enter(download) ==
  IF CacheHas(download.url)
    THEN [download EXCEPT !.pc = "returned", !.result = StringValue(CacheGet(download.url))]
    ELSE [download EXCEPT !.pc = "waitForDomain"]

\* downloadResource(url, subfolder) up to its first await
DownloadResource ==
  \E url \in UrlInputs, subfolder \in SubfolderInputs :
    /\ Len(downloads) < MaxDownloads
    /\ downloads' = Append(downloads,
                           Enter([url |-> url, subfolder |-> subfolder, pc |-> "called",
                                  gets |-> 0, cachedAtCall |-> CacheHas(url),
                                  result |-> NoValue, status |-> 0]))
    /\ UNCHANGED <<downloadedResources, tempFiles, outsideDownloader>>

\* rateLimiter.waitForDomain returned: the GET is issued
WaitForDomainDone(d) ==
  /\ downloads[d].pc = "waitForDomain"
  /\ downloads[d].gets < MaxGets
  /\ downloads' = [downloads EXCEPT ![d].pc = "get", ![d].gets = @ + 1]
  /\ UNCHANGED <<downloadedResources, tempFiles, outsideDownloader>>

\* axios.get settled: on 2xx the filename is generated; a 429 with
\* Retry-After goes to handleRetryAfter; any other rejection is thrown
GetDone(d) ==
  /\ downloads[d].pc = "get"
  /\ \E response \in ResponseInputs :
       downloads' =
         [downloads EXCEPT ![d] =
            IF response.status = 200 THEN [@ EXCEPT !.pc = "mkdir"]
            ELSE IF response.status = 429 /\ response.retryAfter # Null
              THEN [@ EXCEPT !.pc = "handleRetryAfter"]
            ELSE [@ EXCEPT !.pc = "thrown", !.status = response.status]]
  /\ UNCHANGED <<downloadedResources, tempFiles, outsideDownloader>>

\* handleRetryAfter returned: return await this.downloadResource(url, subfolder)
HandleRetryAfterDone(d) ==
  /\ downloads[d].pc = "handleRetryAfter"
  /\ downloads' = [downloads EXCEPT ![d] = Enter(@)]
  /\ UNCHANGED <<downloadedResources, tempFiles, outsideDownloader>>

\* fs.mkdir(path.dirname(localPath), {recursive: true}) returned
MkdirDone(d) ==
  /\ downloads[d].pc = "mkdir"
  /\ downloads' = [downloads EXCEPT ![d].pc = "writeFile"]
  /\ UNCHANGED <<downloadedResources, tempFiles, outsideDownloader>>

\* fs.writeFile(localPath, response.data) returned: the file holds this
\* URL's body, the mapping is stored and the descriptor returned
WriteFileDone(d) ==
  /\ downloads[d].pc = "writeFile"
  /\ LET url == downloads[d].url
         filename == GenerateFilename(url, url.serves)
         localPath == LocalPath(downloads[d].subfolder, filename)
     IN /\ tempFiles' = {f \in tempFiles : f[1] # localPath} \cup {<<localPath, url>>}
        /\ downloadedResources' = CacheSet(url, localPath)
        /\ downloads' = [downloads EXCEPT
                           ![d].pc = "returned",
                           ![d].result = Descriptor(url, localPath, filename, url.bytes,
                                                    url.serves)]
  /\ UNCHANGED outsideDownloader

InitDownloader ==
  /\ IdleBatch
  /\ IdleCapture
  /\ maxConcurrent = DefaultMaxConcurrent
  /\ IdleQueue
  /\ IdleStore
  /\ IdleDownload

NextDownloader ==
  \/ DownloadResource
  \/ \E d \in DownloadIds : WaitForDomainDone(d)
  \/ \E d \in DownloadIds : GetDone(d)
  \/ \E d \in DownloadIds : HandleRetryAfterDone(d)
  \/ \E d \in DownloadIds : MkdirDone(d)
  \/ \E d \in DownloadIds : WriteFileDone(d)

SpecDownloader == InitDownloader /\ [][NextDownloader]_vars

\* C15: a downloadResource call issues at most two GETs in total: the
\* first one and, after a 429 with Retry-After, one retry.
C15_AtMostTwoGets == \A d \in DownloadIds : downloads[d].gets <= 2

\* C16: a downloadResource call for a URL that was already downloaded
\* performs no GET and returns the same descriptor {url, localPath,
\* filename, contentType, size} as the call that downloaded it.
C16_RepeatReturnsDescriptor ==
  \A d \in DownloadIds :
    downloads[d].cachedAtCall =>
      /\ downloads[d].gets = 0
      /\ downloads[d].pc = "returned" =>
           \E c \in DownloadIds :
             /\ downloads[c].url = downloads[d].url
             /\ downloads[c].gets > 0
             /\ downloads[c].pc = "returned"
             /\ downloads[d].result = downloads[c].result

\* C17: two distinct URLs downloaded into the same bucket get different
\* local paths in the URL map, and the file of each still holds its own
\* URL's body.
C17_FilenamesDiffer ==
  \A e, f \in downloadedResources :
    (e[1] # f[1] /\ e[2][2] = f[2][2]) =>
      /\ e[2] # f[2]
      /\ <<e[2], e[1]>> \in tempFiles

\* ---------------------------------------------------------------------
\* WebCaptureService: the resources of one capture, from their extraction
\* to saveCapture
\* ---------------------------------------------------------------------
\* downloadResources' loops, in their order
Kinds == <<"images", "stylesheets", "scripts", "fonts">>

KindSet == {Kinds[i] : i \in 1..Len(Kinds)}

\* the subfolder each loop passes to downloadResource
Subfolder(kind) ==
  CASE kind = "images" -> "images"
    [] kind = "stylesheets" -> "css"
    [] kind = "scripts" -> "js"
    [] OTHER -> "fonts"

\* an extracted resource; url, localPath and filename are <<>> while undefined
Resource(kind, url) ==
  [kind |-> kind, url |-> <<url>>, inline |-> FALSE, localPath |-> <<>>, filename |-> <<>>]

InlineStylesheet ==
  [kind |-> "stylesheets", url |-> <<>>, inline |-> TRUE, localPath |-> <<>>, filename |-> <<>>]

\* what the extractor can list, kind by kind; an image that two img
\* elements show is listed twice
Extracted ==
  << Resource("images", LogoUrl("a.example")), Resource("images", LogoUrl("a.example")),
     Resource("images", LogoUrl("b.example")), Resource("stylesheets", LoadUrl("?m=1")),
     InlineStylesheet, Resource("scripts", ScriptUrl), Resource("fonts", FontUrl) >>

RECURSIVE Listed(_, _)
Listed(positions, i) ==
  IF i > Len(Extracted) THEN <<>>
  ELSE (IF i \in positions THEN <<Extracted[i]>> ELSE <<>>) \o Listed(positions, i + 1)

\* the resources of a page: resources.images, .stylesheets, .scripts and
\* .fonts one after the other
PageInputs ==
  {Listed(positions, 1) :
     positions \in {P \in SUBSET (1..Len(Extracted)) : Cardinality(P) \in 1..MaxResources}}

\* mergePageResources(pages): the first resource of each URL, every inline stylesheet
RECURSIVE MergePageResources(_, _)
MergePageResources(resources, merged) ==
  IF resources = <<>> THEN merged
  ELSE LET r == Head(resources)
           seen == \E i \in 1..Len(merged) :
                     merged[i].kind = r.kind /\ ~merged[i].inline /\ merged[i].url = r.url
       IN MergePageResources(Tail(resources),
                             IF ~r.inline /\ seen THEN merged ELSE Append(merged, r))

\* the src and href attributes of a page's HTML that name a resource: each
\* is the URL the page gave (origin) and, once rewritten, a relative path
PageHtml(resources) ==
  {[origin |-> resources[i].url[1], href |-> <<>>] :
     i \in {k \in 1..Len(resources) :
              ~resources[k].inline /\ resources[k].kind \in {"images", "stylesheets", "scripts"}}}

\* resource.localPath.split('/').slice(-2).join('/')
RelativePath(localPath) == <<localPath[2], localPath[3]>>

\* processHtml's urlToLocalPath: the resources with a url and a localPath
UrlToLocalPath(downloaded) ==
  {<<downloaded[i].url[1], RelativePath(downloaded[i].localPath[1])>> :
     i \in {k \in 1..Len(downloaded) : downloaded[k].url # <<>> /\ downloaded[k].localPath # <<>>}}

\* processHtml(html, resources, url): every attribute whose URL is in the map gets its path
ProcessHtml(html, downloaded) ==
  LET urlToLocalPath == UrlToLocalPath(downloaded)
  IN {IF \E e \in urlToLocalPath : e[1] = ref.origin
        THEN [ref EXCEPT !.href = <<(CHOOSE e \in urlToLocalPath : e[1] = ref.origin)[2]>>]
        ELSE ref : ref \in html}

\* copyResources(resources, captureDir): the files copied, as <<subdir, basename>>;
\* a resource without localPath is skipped, a failed copy only warns
CopyResources(downloaded) ==
  {<<Subfolder(downloaded[i].kind), downloaded[i].localPath[1][3]>> :
     i \in {k \in 1..Len(downloaded) :
              /\ ~downloaded[k].inline
              /\ downloaded[k].localPath # <<>>
              /\ \E f \in tempFiles : f[1] = downloaded[k].localPath[1]}}

\* what a failed downloadResource throws
DownloadErrors ==
  {[message |-> "Request failed with status code 404"],
   [message |-> "timeout of 30000ms exceeded"]}

\* try branch: the resource is pushed with the result's url, localPath and filename
RecordSuccess(st, resource, result) ==
  [s |-> [st.s EXCEPT !.downloaded = Append(@, [resource EXCEPT !.url = result.url,
                                                                  !.localPath = result.localPath,
                                                                  !.filename = result.filename])],
   j |-> [st.j EXCEPT !.succeeded[resource.kind] = @ + 1,
                      !.resourcesDownloaded = @ + 1]]

\* a variant of the catch branch in which a failed download fails the job
RecordFailure_FailsJob(st, resource, error) ==
  [s |-> st.s,
   j |-> [st.j EXCEPT !.status = "failed",
                      !.failed[resource.kind] =
                         Append(@, [url |-> resource.url[1], error |-> error.message])]]

\* catch branch: job.stats.failed.<kind>.push({url, error: error.message})
RecordFailure(st, resource, error) ==
  [s |-> st.s,
   j |-> [st.j EXCEPT !.failed[resource.kind] =
                         Append(@, [url |-> resource.url[1], error |-> error.message])]]

\* a variant of the loops that stops after the resource in hand
LoopPc_ReturnsEarly(cursor, resources) == "processCss"

\* the loops go on to the next resource, then processCssFiles is called
LoopPc(cursor, resources) == IF cursor > Len(resources) THEN "processCss" ELSE "download"

\* the loops from one awaited downloadResource to the next: an inline
\* stylesheet is kept as it is and counted as succeeded
RECURSIVE Loop(_)
Loop(st) ==
  LET resources == st.s.resources
      cursor == st.s.cursor
  IN IF LoopPc(cursor, resources) = "download" /\ resources[cursor].inline
       THEN Loop([s |-> [st.s EXCEPT !.cursor = @ + 1,
                                     !.downloaded = Append(@, resources[cursor])],
                  j |-> [st.j EXCEPT !.attempted["stylesheets"] = @ + 1,
                                     !.succeeded["stylesheets"] = @ + 1]])
       ELSE [s |-> [st.s EXCEPT !.pc = LoopPc(cursor, resources)], j |-> st.j]

\* resourceExtractor.extract returned (single page), or the crawl returned
\* and its pages' resources are merged (multi-page): downloadResources is
\* called with a new ResourceDownloader and runs to its first await
ResourcesReady ==
  \E mode \in {"single", "multi"}, page \in PageInputs :
    /\ session.pc = "idle"
    /\ LET resources == IF mode = "multi" THEN MergePageResources(page, <<>>) ELSE page
           st == Loop([s |-> [session EXCEPT !.mode = mode, !.page = page,
                                             !.resources = resources, !.cursor = 1],
                       j |-> [resJob EXCEPT !.status = "processing",
                                            !.totalResources = Len(resources)]])
       IN session' = st.s /\ resJob' = st.j
    /\ downloadedResources' = {}
    /\ UNCHANGED <<tempFiles, downloads, captured, outsideResources>>

\* the awaited downloader.downloadResource(resource.url, subfolder) settled:
\* with what the map holds for a URL downloaded before, else with the
\* descriptor of the file written, or with an error
DownloadSettled ==
  /\ session.pc = "download"
  /\ LET resource == session.resources[session.cursor]
         url == resource.url[1]
         filename == GenerateFilename(url, url.serves)
         localPath == LocalPath(Subfolder(resource.kind), filename)
         st == [s |-> [session EXCEPT !.cursor = @ + 1, !.events = Append(@, "download")],
                j |-> [resJob EXCEPT !.attempted[resource.kind] = @ + 1]]
         settle(next) == session' = Loop(next).s /\ resJob' = Loop(next).j
     IN \/ /\ CacheHas(url)
           /\ settle(RecordSuccess(st, resource, StringValue(CacheGet(url))))
           /\ UNCHANGED <<downloadedResources, tempFiles>>
        \/ /\ ~CacheHas(url)
           /\ settle(RecordSuccess(st, resource,
                                   Descriptor(url, localPath, filename, url.bytes, url.serves)))
           /\ tempFiles' = {f \in tempFiles : f[1] # localPath} \cup {<<localPath, url>>}
           /\ downloadedResources' = CacheSet(url, localPath)
        \/ /\ ~CacheHas(url)
           /\ \E error \in DownloadErrors : settle(RecordFailure(st, resource, error))
           /\ UNCHANGED <<downloadedResources, tempFiles>>
  /\ UNCHANGED <<downloads, captured, outsideResources>>

\* processCssFiles returned, and with it downloadResources. A single-page
\* capture goes on to page.content(); a multi-page capture hands
\* mainPage.html to saveCapture as it was crawled
ProcessCssDone ==
  /\ session.pc = "processCss"
  /\ session' = IF session.mode = "single"
                  THEN [session EXCEPT !.pc = "content", !.events = Append(@, "css")]
                  ELSE [session EXCEPT !.pc = "save", !.html = PageHtml(session.page),
                                       !.events = @ \o <<"css", "save">>]
  /\ UNCHANGED <<resJob, captured, downloaderVars, outsideResources>>

\* page.content() returned
PageContentDone ==
  /\ session.pc = "content"
  /\ session' = [session EXCEPT !.pc = "title", !.html = PageHtml(session.page)]
  /\ UNCHANGED <<resJob, captured, downloaderVars, outsideResources>>

\* page.title() returned: processHtml rewrites the HTML
PageTitleDone ==
  /\ session.pc = "title"
  /\ session' = [session EXCEPT !.pc = "processHtml",
                                !.html = ProcessHtml(@, session.downloaded),
                                !.events = Append(@, "html")]
  /\ UNCHANGED <<resJob, captured, downloaderVars, outsideResources>>

\* processHtml's promise settled: saveCapture is called
HtmlProcessedDone ==
  /\ session.pc = "processHtml"
  /\ session' = [session EXCEPT !.pc = "save", !.events = Append(@, "save")]
  /\ UNCHANGED <<resJob, captured, downloaderVars, outsideResources>>

\* saveCapture returned: index.html is written, the resources are copied
\* and the job completes
CaptureSavedDone ==
  /\ session.pc = "save"
  /\ captured' = << [html |-> session.html, files |-> CopyResources(session.downloaded)] >>
  /\ session' = [session EXCEPT !.pc = "done"]
  /\ resJob' = [resJob EXCEPT !.status = "completed"]
  /\ UNCHANGED <<downloaderVars, outsideResources>>

InitResources ==
  /\ IdleBatch
  /\ IdleCapture
  /\ maxConcurrent = DefaultMaxConcurrent
  /\ IdleQueue
  /\ IdleStore
  /\ IdleDownload

NextResources ==
  \/ ResourcesReady
  \/ DownloadSettled
  \/ ProcessCssDone
  \/ PageContentDone
  \/ PageTitleDone
  \/ HtmlProcessedDone
  \/ CaptureSavedDone

SpecResources == InitResources /\ [][NextResources]_vars

\* C18: in the index.html of every completed capture, single-page or
\* multi-page, every reference whose resource was downloaded points to a
\* local path at which the capture directory has a file.
C18_ReferencesResolve ==
  session.pc = "done" =>
    \A ref \in captured[1].html :
      (\E e \in downloadedResources : e[1] = ref.origin) =>
        /\ ref.href # <<>>
        /\ ref.href[1] \in captured[1].files

\* the single-page capture has reached the step named by event
Happened(event) == \E i \in 1..Len(session.events) : session.events[i] = event

\* C19: within a single-page capture no download settles once the CSS
\* rewrite, the HTML rewrite or saveCapture has started; when either
\* rewrite runs every resource's download has settled; saveCapture is called
\* after the HTML rewrite; and the rewritten HTML is what the complete list
\* of downloaded resources gives.
C19_RewritesAfterDownloads ==
  session.mode = "single" =>
    /\ \A i, j \in 1..Len(session.events) :
         (i < j /\ session.events[j] = "download") =>
           session.events[i] \notin {"css", "html", "save"}
    /\ (Happened("css") \/ Happened("html")) => session.cursor > Len(session.resources)
    /\ \A i, j \in 1..Len(session.events) :
         (session.events[i] = "html" /\ session.events[j] = "save") => i < j
    /\ Happened("save") => Happened("html") /\ Happened("css")
    /\ Happened("html") =>
         session.html = ProcessHtml(PageHtml(session.page), session.downloaded)

\* a single-page capture of several resources, one of which failed and one
\* of which was rewritten, has been saved
C19_Witness ==
  /\ session.mode = "single"
  /\ session.pc = "done"
  /\ Len(session.resources) >= 2
  /\ \E kind \in KindSet : resJob.failed[kind] # <<>>
  /\ \E ref \in session.html : ref.href # <<>>

\* C20: a failed download leaves the job's status as it was and appends
\* {url, error} to stats.failed.<kind>; at every point, for each kind, the
\* succeeded counter plus the number of failed entries is the number of
\* resources of that kind attempted so far.
C20_FailuresOnlyRecorded ==
  /\ [](\A kind \in KindSet :
          resJob.succeeded[kind] + Len(resJob.failed[kind]) = resJob.attempted[kind])
  /\ [][\A kind \in KindSet :
          resJob'.failed[kind] # resJob.failed[kind] =>
            /\ resJob'.status = resJob.status
            /\ \E error \in DownloadErrors :
                 resJob'.failed[kind] =
                   Append(resJob.failed[kind],
                          [url |-> session.resources[session.cursor].url[1],
                           error |-> error.message])]_vars

\* a capture with a failed and a succeeded download of one kind completed
C20_Witness ==
  /\ resJob.status = "completed"
  /\ \E kind \in KindSet : resJob.failed[kind] # <<>> /\ resJob.succeeded[kind] > 0

\* ---------------------------------------------------------------------
\* MultiPageCrawlerService.crawl: the breadth-first crawl of a multi-page
\* capture, its pages captured in parallel batches
\* ---------------------------------------------------------------------
\* A URL is its hostname, its path and its fragment.
PageUrl(host, path, hash) == [host |-> host, path |-> path, hash |-> hash]

SeedUrl == PageUrl("site.test", "/", "")

CrawlUrls ==
  {SeedUrl, PageUrl("site.test", "/article", ""), PageUrl("site.test", "/article", "#top"),
   PageUrl("other.test", "/", "")}

RECURSIVE SeqsUpTo(_, _)
SeqsUpTo(S, n) ==
  IF n = 0 THEN {<<>>}
  ELSE SeqsUpTo(S, n - 1) \cup {Append(q, x) : q \in SeqsUpTo(S, n - 1), x \in S}

\* the a[href] links a loaded page can show, in document order
LinkInputs == SeqsUpTo(CrawlUrls, MaxLinks)

\* options.multiPage as CaptureOptions validates it
CrawlOptionInputs ==
  [depth : 1..MaxCrawlDepth, maxPages : 1..MaxCrawlPages, sameDomainOnly : BOOLEAN]

\* ContentDetector.filterLinksByDomain(links, baseDomain)
FilterLinksByDomain(links, baseDomain) ==
  LET sameDomain(link) == link.host = baseDomain
  IN SelectSeq(links, sameDomain)

\* the key deduplicateLinks compares: the URL without its fragment and
\* without a trailing slash
NormalizedUrl(url) == [host |-> url.host, path |-> IF url.path = "/" THEN "" ELSE url.path]

\* ContentDetector.deduplicateLinks(links): the first link of each key, as it was written
RECURSIVE DeduplicateLinks(_, _)
DeduplicateLinks(links, kept) ==
  IF links = <<>> THEN kept
  ELSE DeduplicateLinks(
         Tail(links),
         IF \E i \in 1..Len(kept) : NormalizedUrl(kept[i]) = NormalizedUrl(Head(links))
           THEN kept ELSE Append(kept, Head(links)))

\* a variant of extractContentLinks that never filters by domain
ExtractContentLinks_AnyDomain(links, sameDomainOnly, startUrl) == DeduplicateLinks(links, <<>>)

\* extractContentLinks(page, sameDomainOnly, pageUrl, startUrl)
ExtractContentLinks(links, sameDomainOnly, startUrl) ==
  DeduplicateLinks(IF sameDomainOnly THEN FilterLinksByDomain(links, startUrl.host) ELSE links,
                   <<>>)

\* the inner while loop of crawl: entries are shifted off the queue while
\* the batch has room; a visited URL is skipped, any other is marked
\* visited and active and its capturePage call is started
\* a variant of the batch's bound that leaves maxPages out
BatchHasRoom_NoPageLimit(c) == Len(c.batch) < CrawlerMaxConcurrent

\* the bound of a batch: maxConcurrent, and maxPages less the pages, the
\* active captures and the batch built so far
BatchHasRoom(c) ==
  /\ Len(c.batch) < CrawlerMaxConcurrent
  /\ Len(c.pages) + Cardinality(c.active) + Len(c.batch) < c.options.maxPages

\* a variant of the visited test that skips nothing
AlreadyVisited_Never(c, url) == FALSE

\* visited.has(current.url)
AlreadyVisited(c, url) == url \in c.visited

\* skipped counts the queue entries dropped as visited (history)
RECURSIVE FillBatch(_)
FillBatch(c) ==
  IF BatchHasRoom(c) /\ c.pageQueue # <<>>
    THEN LET current == Head(c.pageQueue)
             rest == [c EXCEPT !.pageQueue = Tail(@)]
         IN IF AlreadyVisited(c, current.url)
              THEN FillBatch([rest EXCEPT !.skipped = @ + 1])
              ELSE FillBatch([rest EXCEPT
                                !.visited = @ \cup {current.url},
                                !.active = @ \cup {current.url},
                                !.batch = Append(@, [url |-> current.url, depth |-> current.depth,
                                                     pc |-> "goto", success |-> FALSE])])
    ELSE c

\* the outer while loop of crawl, from its condition to the await of the
\* batch, or to the return when the loop ends
CrawlLoop(c) ==
  IF c.pageQueue # <<>> /\ Len(c.pages) < c.options.maxPages
    THEN LET filled == FillBatch([c EXCEPT !.batch = <<>>])
         IN [filled EXCEPT !.pc = IF filled.batch = <<>> THEN "returned" ELSE "batch"]
    ELSE [c EXCEPT !.pc = "returned", !.batch = <<>>]

\* a failure as the history keeps it: the URL, and the number of pages the
\* result had when it failed
Failure(url, pages) == [url |-> url, pages |-> Len(pages)]

\* results.forEach: a settled page leaves active, a successful one joins
\* pages and the job's page counts are updated
RECURSIVE CollectResults(_, _)
CollectResults(c, results) ==
  IF results = <<>> THEN c
  ELSE LET pageData == Head(results)
           left == [c EXCEPT !.active = @ \ {pageData.url}]
           pages == Append(c.pages, [url |-> pageData.url, depth |-> pageData.depth])
       IN CollectResults(
            IF pageData.success
              THEN [left EXCEPT !.pages = pages,
                                !.stats = [pagesProcessed |-> Len(pages),
                                           totalPages |-> Min(c.options.maxPages,
                                                              Len(pages) + Len(c.pageQueue))]]
              ELSE [left EXCEPT !.failed = Append(@, Failure(pageData.url, c.pages))],
            Tail(results))

\* crawl(startUrl, options, job) up to its first await
StartCrawl(optionSet) ==
  \E options \in optionSet :
    /\ crawl.pc = "idle"
    /\ testCrawl.pc = "idle"
    /\ crawl' = CrawlLoop([crawl EXCEPT
                             !.options = options,
                             !.pageQueue = << [url |-> SeedUrl, depth |-> 0] >>])
    /\ UNCHANGED <<testCrawl, outsideCrawl>>

\* capturePage: the page is opened and loaded, its resources and title are
\* read and, below the depth limit, its content links are extracted and
\* pushed on the queue; or one of these calls throws. offDomainSeen records
\* that a page showed a link to another hostname (history)
ExtractLinks(i, shownSet) ==
  /\ crawl.pc = "batch"
  /\ crawl.batch[i].pc = "goto"
  /\ \/ \E shown \in shownSet :
          LET depth == crawl.batch[i].depth
              links == IF depth < crawl.options.depth
                         THEN ExtractContentLinks(shown, crawl.options.sameDomainOnly, SeedUrl)
                         ELSE <<>>
              pushed == [k \in 1..Len(links) |-> [url |-> links[k], depth |-> depth + 1]]
              offDomain == \E k \in 1..Len(shown) : shown[k].host # SeedUrl.host
          IN crawl' = [crawl EXCEPT !.batch[i].pc = "content", !.pageQueue = @ \o pushed,
                                    !.offDomainSeen = @ \/ (depth < crawl.options.depth /\ offDomain)]
     \/ crawl' = [crawl EXCEPT !.batch[i].pc = "fulfilled"]
  /\ UNCHANGED <<testCrawl, outsideCrawl>>

Crawl == StartCrawl(CrawlOptionInputs)

LinksExtracted(i) == ExtractLinks(i, LinkInputs)

\* capturePage: page.content() returned or threw; the page is closed and
\* the call's promise fulfilled with success true or false
ContentReturned(i) ==
  /\ crawl.pc = "batch"
  /\ crawl.batch[i].pc = "content"
  /\ \E success \in BOOLEAN :
       crawl' = [crawl EXCEPT !.batch[i].pc = "fulfilled", !.batch[i].success = success]
  /\ UNCHANGED <<testCrawl, outsideCrawl>>

\* Promise.allSettled(batch) settled: the results are collected and the
\* loop goes on to the next batch, or crawl returns its pages
BatchSettled ==
  /\ crawl.pc = "batch"
  /\ \A i \in 1..Len(crawl.batch) : crawl.batch[i].pc = "fulfilled"
  /\ crawl' = CrawlLoop(CollectResults(crawl, crawl.batch))
  /\ UNCHANGED <<testCrawl, outsideCrawl>>

\* ---------------------------------------------------------------------
\* TestCrawlService: the discovery crawl, one page at a time, and its cancel
\* ---------------------------------------------------------------------
\* TestCrawl.normalizeOptions(options); an option left out is 0 here
NormalizeOptions(options) ==
  [depth |-> Min(Max(IF options.depth = 0 THEN 1 ELSE options.depth, 1), 10),
   maxPages |-> IF options.maxPages = 0 THEN 100 ELSE options.maxPages,
   sameDomainOnly |-> options.sameDomainOnly]

TestCrawlOptionInputs ==
  [depth : 0..MaxCrawlDepth, maxPages : 1..MaxCrawlPages, sameDomainOnly : BOOLEAN]

\* TestCrawl.complete()
TestCrawlComplete(t) == [t EXCEPT !.status = "completed", !.progress = 100, !.pc = "done"]

\* TestCrawl.fail(error)
TestCrawlFail(t, error) == [t EXCEPT !.status = "failed", !.error = <<error.message>>]

\* the loop's domain test: with sameDomainOnly, a hostname other than the seed's is skipped
OffDomain(t, url) == t.options.sameDomainOnly /\ url.host # SeedUrl.host

\* executeCrawl's while loop from its condition to the awaited discoverPage,
\* or to testCrawl.complete() when the loop ends; afterCancel records
\* whether cancelCrawl had been called when the page's discovery started
RECURSIVE DiscoverLoop(_)
DiscoverLoop(t) ==
  IF t.queue # <<>> /\ Len(t.pages) < t.options.maxPages
    THEN LET current == Head(t.queue)
             rest == [t EXCEPT !.queue = Tail(@)]
         IN IF \/ current.url \in t.visited
               \/ current.depth > t.options.depth
               \/ OffDomain(t, current.url)
              THEN DiscoverLoop(rest)
              ELSE [rest EXCEPT !.visited = @ \cup {current.url},
                                !.current = << [url |-> current.url, depth |-> current.depth,
                                                afterCancel |-> t.cancelled] >>,
                                !.pc = "discoverPage"]
    ELSE TestCrawlComplete([t EXCEPT !.current = <<>>])

\* the for loop over pageData.discoveredLinks
RECURSIVE PushLinks(_, _, _)
PushLinks(t, links, depth) ==
  IF links = <<>> THEN t
  ELSE PushLinks(
         IF Head(links) \notin t.visited /\ Len(t.pages) < t.options.maxPages
           THEN [t EXCEPT !.queue = Append(@, [url |-> Head(links), depth |-> depth])]
           ELSE t,
         Tail(links), depth)

\* a variant of the inner catch that rethrows: the outer catch fails the crawl
DiscoverFailed_StopsCrawl(t, error) ==
  [TestCrawlFail(t, error) EXCEPT !.pc = "done",
                                  !.failed = Append(@, Failure(t.current[1].url, t.pages))]

\* discoverPage threw: the inner catch logs the error and continues the loop
DiscoverFailed(t, error) ==
  DiscoverLoop([t EXCEPT !.failed = Append(@, Failure(t.current[1].url, t.pages))])

\* startTestCrawl(url, options): the TestCrawl is created and executeCrawl
\* runs up to its first await
StartTestCrawl ==
  \E options \in TestCrawlOptionInputs :
    /\ crawl.pc = "idle"
    /\ testCrawl.pc = "idle"
    /\ testCrawl' = [testCrawl EXCEPT !.pc = "getBrowser", !.status = "crawling",
                                      !.options = NormalizeOptions(options),
                                      !.queue = << [url |-> SeedUrl, depth |-> 0] >>]
    /\ UNCHANGED <<crawl, outsideCrawl>>

\* browserManager.getBrowser() returned, or threw: executeCrawl's catch and
\* startTestCrawl's catch both call testCrawl.fail(error)
GetBrowserDone ==
  /\ testCrawl.pc = "getBrowser"
  /\ \/ testCrawl' = DiscoverLoop(testCrawl)
     \/ \E error \in Errors :
          testCrawl' = [TestCrawlFail(testCrawl, error) EXCEPT !.pc = "done"]
  /\ UNCHANGED <<crawl, outsideCrawl>>

\* discoverPage returned the page's metadata and links, or threw (the loop
\* continues with the next URL)
DiscoverPageDone ==
  /\ testCrawl.pc = "discoverPage"
  /\ \/ \E shown \in LinkInputs :
          LET current == testCrawl.current[1]
              pages == Append(testCrawl.pages, current)
              added == [testCrawl EXCEPT
                          !.pages = pages,
                          !.progress = Min((Len(pages) * 100) \div testCrawl.options.maxPages, 100)]
          IN testCrawl' =
               DiscoverLoop(IF current.depth < testCrawl.options.depth /\ Len(shown) > 0
                              THEN PushLinks(added, shown, current.depth + 1)
                              ELSE added)
     \/ \E error \in Errors : testCrawl' = DiscoverFailed(testCrawl, error)
  /\ UNCHANGED <<crawl, outsideCrawl>>

\* cancelCrawl(crawlId) on a crawl in status crawling
CancelCrawl ==
  /\ testCrawl.pc # "idle"
  /\ testCrawl.status = "crawling"
  /\ testCrawl' = [TestCrawlFail(testCrawl, [message |-> "Cancelled by user"])
                     EXCEPT !.cancelled = TRUE]
  /\ UNCHANGED <<crawl, outsideCrawl>>

InitCrawl ==
  /\ IdleBatch
  /\ IdleCapture
  /\ maxConcurrent = DefaultMaxConcurrent
  /\ IdleQueue
  /\ IdleStore
  /\ IdleDownload

NextCrawl ==
  \/ Crawl
  \/ \E i \in 1..CrawlerMaxConcurrent : i <= Len(crawl.batch) /\ LinksExtracted(i)
  \/ \E i \in 1..CrawlerMaxConcurrent : i <= Len(crawl.batch) /\ ContentReturned(i)
  \/ BatchSettled
  \/ StartTestCrawl
  \/ GetBrowserDone
  \/ DiscoverPageDone
  \/ CancelCrawl

SpecCrawl == InitCrawl /\ [][NextCrawl]_vars

C23_VisitedBounded ==
  /\ Cardinality(crawl.visited) <= crawl.options.maxPages
  /\ testCrawl.pc # "idle" => Cardinality(testCrawl.visited) <= testCrawl.options.maxPages

\* C24: with sameDomainOnly, every page of a crawl's result has the seed
\* URL's hostname, in capture mode and in discovery mode.
C24_SameDomainOnly ==
  /\ crawl.options.sameDomainOnly =>
       \A i \in 1..Len(crawl.pages) : crawl.pages[i].url.host = SeedUrl.host
  /\ testCrawl.options.sameDomainOnly =>
       \A i \in 1..Len(testCrawl.pages) : testCrawl.pages[i].url.host = SeedUrl.host

\* a crawl with sameDomainOnly returned several pages, one of which showed
\* a link to another hostname
C24_Witness ==
  /\ crawl.pc = "returned"
  /\ crawl.options.sameDomainOnly
  /\ crawl.offDomainSeen
  /\ Len(crawl.pages) >= 2

\* C25: once cancelCrawl was called on a crawl in status crawling, the
\* crawl's status is failed with error "Cancelled by user" and stays so: it
\* never becomes completed.
C25_CancelledStaysFailed ==
  testCrawl.cancelled =>
    /\ testCrawl.status = "failed"
    /\ testCrawl.error = <<"Cancelled by user">>

\* C26: no page whose discovery started after the cancel is added to
\* discovered.pages.
C26_NoPageAfterCancel ==
  \A i \in 1..Len(testCrawl.pages) : ~testCrawl.pages[i].afterCancel

\* ---------------------------------------------------------------------
\* captureCurated: one request, for a crawl in any status
\* ---------------------------------------------------------------------
\* req.body of a capture-curated request with the status of the crawl it
\* names; selectedUrls, additionalUrls and excludedUrls are arrays in which
\* a URL can occur more than once
RequestInputs ==
  [crawlStatus : {"crawling", "completed", "failed", "not found"},
   selectedUrls : SeqsUpTo(1..MaxUrls, MaxUrls),
   additionalUrls : SeqsUpTo(1..MaxUrls, 1),
   excludedUrls : SeqsUpTo(1..MaxUrls, 1)]

\* captureCurated(req, res) up to its first await, or to its response
HandleCurated ==
  /\ multi.phase = "none"
  /\ \E options \in SinglePageOptions :
       CuratedHandler(request.selectedUrls, request.additionalUrls, request.excludedUrls,
                      request.crawlStatus, options)

InitCurated ==
  /\ IdleBatch
  /\ IdleCapture
  /\ maxConcurrent = DefaultMaxConcurrent
  /\ IdleQueue
  /\ IdleStore
  /\ IdleLimiter /\ IdleDownloader /\ IdleResources /\ IdleCrawl
  /\ request \in RequestInputs
  /\ captureOptions = <<>>

NextCurated ==
  \/ HandleCurated
  \/ LoopResume

SpecCurated == InitCurated /\ [][NextCurated]_vars

\* the URLs named by an array
UrlSet(urls) == {urls[i] : i \in 1..Len(urls)}

\* C27: a capture-curated request for a crawl that is not completed is
\* rejected: it is never answered 202 and no batch member and no capture
\* job is created for it.
C27_UncompletedCrawlRejected ==
  request.crawlStatus # "completed" =>
    /\ multi.response # 202
    /\ multi.phase = "none"
    /\ batch = BatchJob(<<>>)
    /\ capJobs = <<>>
    /\ queueJobs = {}

\* a request that selects URLs of a crawl still crawling has been answered 400
C27_Witness ==
  /\ request.crawlStatus = "crawling"
  /\ request.selectedUrls # <<>>
  /\ multi.response = 400

C29_OnlyAllowedFieldsChange ==
  [][/\ \A id \in 1..Len(dirs) :
          (/\ dirs[id] # <<>> /\ dirs[id][1].metadata # <<>>
           /\ dirs'[id] # <<>> /\ dirs'[id][1].metadata # <<>>)
            => [dirs'[id][1].metadata[1] EXCEPT !.title = dirs[id][1].metadata[1].title]
                 = dirs[id][1].metadata[1]
     /\ \A i \in 1..Len(index), k \in 1..Len(index') :
          index[i].id = index'[k].id
            => [index'[k] EXCEPT !.title = index[i].title] = index[i]]_vars

\* ---------------------------------------------------------------------
\* listCaptures' order
\* ---------------------------------------------------------------------
\* C30: the captures a listCaptures call with sort = size returned are
\* ordered by the size stored for them, ascending for order asc and
\* descending for order desc.
C30_ListedBySize ==
  \A t \in TaskIds :
    (tasks[t].op = "listCaptures" /\ tasks[t].pc = "done" /\ tasks[t].filters.sort = "size")
      => \A i, k \in 1..Len(tasks[t].listed) :
           i < k => IF tasks[t].filters.order = "asc"
                      THEN tasks[t].listed[i].size <= tasks[t].listed[k].size
                      ELSE tasks[t].listed[i].size >= tasks[t].listed[k].size

\* listings by date are ordered (the comparator reads a field the index has)
ListedByDate ==
  \A t \in TaskIds :
    (tasks[t].op = "listCaptures" /\ tasks[t].pc = "done" /\ tasks[t].filters.sort = "date")
      => \A i, k \in 1..Len(tasks[t].listed) :
           i < k => IF tasks[t].filters.order = "asc"
                      THEN tasks[t].listed[i].capturedAt <= tasks[t].listed[k].capturedAt
                      ELSE tasks[t].listed[i].capturedAt >= tasks[t].listed[k].capturedAt

\* ---------------------------------------------------------------------
\* listCaptures' search
\* ---------------------------------------------------------------------
\* the notes metadata.json holds for a capture ('' when it has none)
NotesOf(id) == IF HasMetadata(id) THEN dirs[id][1].metadata[1].notes ELSE <<>>

\* C31: a listCaptures call with a search string returns exactly the
\* indexed captures whose title, url or notes contains the string, case
\* ignored: a capture that matches in its notes only is among them.
C31_SearchFindsNotes ==
  [][\A t \in TaskIds :
       (/\ tasks[t].pc = "listIndex"
        /\ tasks'[t].pc = "done"
        /\ tasks[t].filters.search # <<>>)
         => LET search == ToLowerCase(tasks[t].filters.search)
                listed == tasks'[t].listed
            IN {listed[i].id : i \in 1..Len(listed)}
                 = {index[i].id : i \in
                      {k \in 1..Len(index) :
                         \/ Includes(ToLowerCase(TitleChars(index[k].title)), search)
                         \/ Includes(ToLowerCase(UrlChars(index[k].url)), search)
                         \/ Includes(ToLowerCase(NotesOf(index[k].id)), search)}}]_vars

\* searches by title or url return the entries that match
SearchFindsTitleAndUrl ==
  \A t \in TaskIds :
    (tasks[t].op = "listCaptures" /\ tasks[t].pc = "done")
      => (tasks[t].filters.search = <<"/", "2">>
            => \A i \in 1..Len(tasks[t].listed) : tasks[t].listed[i].url = 2)

\* ---------------------------------------------------------------------
\* CaptureOptions: the constructor's normalisation
\* ---------------------------------------------------------------------
MinTimeout == 5000
MaxTimeout == 120000
DefaultTimeout == 30000
MinDepth == 1
MaxDepth == 3
MinPages == 1
MaxPages == 100
DefaultPages == 10

\* an optional value of the options object: <<>> when the key is absent,
\* <<v>> when it is v
TimeoutInputs ==
  {<<>>} \cup {<<n>> : n \in {0 - 1, 0, 1, MinTimeout - 1, MinTimeout, MinTimeout + 1,
                              DefaultTimeout, MaxTimeout - 1, MaxTimeout, MaxTimeout + 1}}

DepthInputs == {<<>>} \cup {<<n>> : n \in (MinDepth - 2)..(MaxDepth + 1)}

PagesInputs ==
  {<<>>} \cup {<<n>> : n \in {0 - 1, 0, MinPages, MinPages + 1, DefaultPages,
                              MaxPages - 1, MaxPages, MaxPages + 1}}

SameDomainInputs == {<<>>, <<TRUE>>, <<FALSE>>}

OptionsInputs ==
  [timeout : TimeoutInputs, depth : DepthInputs, maxPages : PagesInputs,
   sameDomainOnly : SameDomainInputs]

\* value || fallback, for a number: undefined and 0 are falsy
OrDefault(value, fallback) == IF value = <<>> \/ value = <<0>> THEN fallback ELSE value[1]

\* Math.min(Math.max(value, low), high)
Clamp(value, low, high) == Min(Max(value, low), high)

\* new CaptureOptions(options): timeout and multiPage
CaptureOptions(options) ==
  [timeout |-> Clamp(OrDefault(options.timeout, DefaultTimeout), MinTimeout, MaxTimeout),
   multiPage |->
     [depth |-> Clamp(OrDefault(options.depth, MinDepth), MinDepth, MaxDepth),
      maxPages |-> Clamp(OrDefault(options.maxPages, DefaultPages), MinPages, MaxPages),
      sameDomainOnly |-> options.sameDomainOnly # <<FALSE>>]]

\* the controller builds the CaptureOptions of the request
NewCaptureOptions ==
  /\ captureOptions = <<>>
  /\ captureOptions' = <<CaptureOptions(request)>>
  /\ UNCHANGED <<batchVars, capVars, queueVars, storeVars, limiterVars, downloaderVars,
                 resourceVars, crawlVars, request>>

InitOptions ==
  /\ IdleBatch
  /\ IdleCapture
  /\ maxConcurrent = DefaultMaxConcurrent
  /\ IdleQueue
  /\ IdleStore
  /\ IdleLimiter /\ IdleDownloader /\ IdleResources /\ IdleCrawl
  /\ request \in OptionsInputs
  /\ captureOptions = <<>>

NextOptions == NewCaptureOptions

SpecOptions == InitOptions /\ [][NextOptions]_vars

\* the value of a range nearest to n
Nearest(n, low, high) == IF n < low THEN low ELSE IF n > high THEN high ELSE n

\* the normalised options are within their ranges
OptionsInRange ==
  captureOptions # <<>> =>
    /\ captureOptions[1].timeout \in MinTimeout..MaxTimeout
    /\ captureOptions[1].multiPage.depth \in MinDepth..MaxDepth
    /\ captureOptions[1].multiPage.maxPages \in MinPages..MaxPages
    /\ captureOptions[1].multiPage.sameDomainOnly = (request.sameDomainOnly # <<FALSE>>)

\* C32: for every number given as timeout, depth or maxPages, the
\* normalised value is within [5000, 120000], [1, 3] or [1, 100] and is the
\* value of the range nearest to the number given; sameDomainOnly is true
\* unless false was given.
C32_OptionsClamped ==
  captureOptions # <<>> =>
    /\ OptionsInRange
    /\ request.timeout # <<>> =>
         captureOptions[1].timeout = Nearest(request.timeout[1], MinTimeout, MaxTimeout)
    /\ request.depth # <<>> =>
         captureOptions[1].multiPage.depth = Nearest(request.depth[1], MinDepth, MaxDepth)
    /\ request.maxPages # <<>> =>
         captureOptions[1].multiPage.maxPages = Nearest(request.maxPages[1], MinPages, MaxPages)

\* ---------------------------------------------------------------------
\* Page failures in the two crawls
\* ---------------------------------------------------------------------
\* C33: a page whose capture or discovery failed is not in the crawl's
\* result, and the crawl goes on after it: a capture-mode crawl returns, and
\* a discovery crawl in which a page failed ends completed, only when the
\* queue is used up or the result has maxPages pages.
C33_PageFailureSkipped ==
  /\ \A i \in 1..Len(crawl.pages), k \in 1..Len(crawl.failed) :
       crawl.pages[i].url # crawl.failed[k].url
  /\ \A i \in 1..Len(testCrawl.pages), k \in 1..Len(testCrawl.failed) :
       testCrawl.pages[i].url # testCrawl.failed[k].url
  /\ crawl.pc = "returned" =>
       \/ crawl.pageQueue = <<>>
       \/ Len(crawl.pages) >= crawl.options.maxPages
  /\ (testCrawl.pc = "done" /\ testCrawl.failed # <<>>) =>
       /\ testCrawl.status = "completed"
       /\ \/ testCrawl.queue = <<>>
          \/ Len(testCrawl.pages) >= testCrawl.options.maxPages

\* a discovery crawl ended completed with a page discovered after another
\* page had failed
C33_Witness ==
  /\ testCrawl.pc = "done"
  /\ testCrawl.status = "completed"
  /\ \E k \in 1..Len(testCrawl.failed) : Len(testCrawl.pages) > testCrawl.failed[k].pages

\* a capture-mode crawl returned with a page captured after another page had failed
C33_CaptureWitness ==
  /\ crawl.pc = "returned"
  /\ \E k \in 1..Len(crawl.failed) : Len(crawl.pages) > crawl.failed[k].pages

\* ---------------------------------------------------------------------
\* The running counter of the job queue
\* ---------------------------------------------------------------------
\* the jobs that were started and have not completed, failed or been deleted
StartedJobs == {jobId \in 1..Len(convJobs) : HasJob(jobId) /\ convJobs[jobId].status = "parsing"}

\* C34: a completeJob or failJob call on a job of the queue leaves running
\* one less than it was, and after any sequence of calls running is the
\* number of jobs started and not yet completed, failed or deleted.
C34_RunningCountsStarted ==
  /\ (qCall.op \in {"completeJob", "failJob"} /\ qCall.status # "deleted")
       => running = qCall.running - 1
  /\ running = Cardinality(StartedJobs)

\* ---------------------------------------------------------------------
\* The batch summary
\* ---------------------------------------------------------------------
\* C35: in every state of a batch the completed, failed and pending counts
\* of its summary add up to its total, also when a member was updated
\* before all members were added.
C35_SummaryAddsUp ==
  batch.summary.completed + batch.summary.failed + batch.summary.pending = batch.summary.total

\* ---------------------------------------------------------------------
\* The end of a batch
\* ---------------------------------------------------------------------
\* C36: once the handler has answered and every member of the batch has
\* finished (each URL has its member, each member is completed or failed),
\* the batch is completed, partial or failed; a batch without URLs, all
\* its members finished from the start, included.
C36_BatchEnds ==
  (/\ multi.phase = "responded"
   /\ multi.response = 202
   /\ Len(batch.jobs) = Len(batch.urls)
   /\ \A i \in 1..Len(batch.jobs) : batch.jobs[i].status \in {"completed", "failed"})
    => batch.status \in {"completed", "partial", "failed"}

\* the same for the batches that have a URL
NonEmptyBatchEnds == batch.urls # <<>> => C36_BatchEnds

\* ---------------------------------------------------------------------
\* The capture-mode crawl of one site, its pages completing in any order
\* ---------------------------------------------------------------------
SitePage(path) == PageUrl("site.test", path, "")

\* a site of eight pages: the seed links to four articles, two of which
\* link on, down to depth 3
SiteLinks(url) ==
  CASE url = SeedUrl -> <<SitePage("/a"), SitePage("/b"), SitePage("/c"), SitePage("/p")>>
    [] url = SitePage("/a") -> <<SitePage("/q")>>
    [] url = SitePage("/p") -> <<SitePage("/p2")>>
    [] url = SitePage("/q") -> <<SitePage("/x")>>
    [] OTHER -> <<>>

\* the deepest crawl CaptureOptions allows, with room for every page of the site
SiteOptions == {[depth |-> MaxDepth, maxPages |-> 8, sameDomainOnly |-> TRUE]}

InitSite ==
  /\ IdleBatch
  /\ IdleCapture
  /\ maxConcurrent = DefaultMaxConcurrent
  /\ IdleQueue
  /\ IdleStore
  /\ IdleDownload

NextSite ==
  \/ StartCrawl(SiteOptions)
  \/ \E i \in 1..CrawlerMaxConcurrent :
       i <= Len(crawl.batch) /\ ExtractLinks(i, {SiteLinks(crawl.batch[i].url)})
  \/ \E i \in 1..CrawlerMaxConcurrent : i <= Len(crawl.batch) /\ ContentReturned(i)
  \/ BatchSettled

SpecSite == InitSite /\ [][NextSite]_vars

\* C37: the pages of a capture-mode crawl's result are in non-decreasing
\* depth order, and no page is being captured while a page of lower depth
\* that was not visited yet waits in the queue, whatever the order in which
\* the pages of a batch complete.
C37_BreadthFirst ==
  /\ \A i, k \in 1..Len(crawl.pages) : i < k => crawl.pages[i].depth <= crawl.pages[k].depth
  /\ crawl.pc = "batch" =>
       \A i \in 1..Len(crawl.batch), k \in 1..Len(crawl.pageQueue) :
         crawl.pageQueue[k].url \notin crawl.visited
           => crawl.batch[i].depth <= crawl.pageQueue[k].depth

\* ---------------------------------------------------------------------
\* The progress of a capture job
\* ---------------------------------------------------------------------
\* C38: while a capture job is processing, no update lowers its progress,
\* in a single-page and in a multi-page capture.
C38_ProgressNeverDecreases ==
  [][\A j \in JobIds :
       (capJobs[j].status = "processing" /\ capJobs'[j].status = "processing")
         => capJobs'[j].progress >= capJobs[j].progress]_vars

\* the same for single-page captures
SingleProgressNeverDecreases ==
  [][\A j \in JobIds :
       (/\ ~capJobs[j].options.multiPage.enabled
        /\ capJobs[j].status = "processing" /\ capJobs'[j].status = "processing")
         => capJobs'[j].progress >= capJobs[j].progress]_vars

\* ---------------------------------------------------------------------
\* The step log of a failed capture job
\* ---------------------------------------------------------------------
\* C39: when a capture job fails, the step that was current at the error
\* is the one marked failed, and the failed job has no step in_progress.
C39_CurrentStepFails ==
  [][\A j \in JobIds :
       (capJobs[j].status # "failed" /\ capJobs'[j].status = "failed")
         => LET i == FindStep(capJobs'[j].steps, capJobs[j].currentStep)
            IN /\ i # 0
               /\ capJobs'[j].steps[i].status = "failed"
               /\ InProgressSteps(capJobs'[j]) = {}]_vars

\* a failing job has exactly one of its steps marked failed
OneStepFailed ==
  \A j \in JobIds :
    capJobs[j].status = "failed"
      => Cardinality({i \in 1..Len(capJobs[j].steps) : capJobs[j].steps[i].status = "failed"}) = 1

\* ---------------------------------------------------------------------
\* Parallel downloads of one URL
\* ---------------------------------------------------------------------
\* C40: of the downloadResource calls made on one downloader, in parallel
\* or one after the other, no two calls for the same URL both send a GET.
C40_OneGetPerUrl ==
  \A c, d \in DownloadIds :
    (c # d /\ downloads[c].url = downloads[d].url)
      => ~(downloads[c].gets > 0 /\ downloads[d].gets > 0)

\* two calls for one URL that were both answered 200 and returned
TwoDownloadsOfOneUrl ==
  \E c, d \in DownloadIds :
    /\ c # d
    /\ downloads[c].url = downloads[d].url
    /\ downloads[c].pc = "returned" /\ downloads[d].pc = "returned"
    /\ downloads[c].gets = 1 /\ downloads[d].gets = 1

====
